---- MODULE Spec2Model ----
(***************************************************************************)
(* A model of the energy time-series engine of pbutland/solar:             *)
(*   - calculateConsumptionData, the energy flow simulation                *)
(*     (utils/solarCalculations.ts), and the period aggregator             *)
(*     aggregateEnergyCalculationsToPeriod (utils/chartUtils.ts);          *)
(*   - the debounced irradiance fetch of App.tsx;                          *)
(*   - getApiSolarIrradiance (services/solarIrradianceService.ts);         *)
(*   - getEnergyCsvParser and aggregateToInterval (parsers/csvProcessor);  *)
(*   - processSolarIrradianceData and the irradiance fetches of the NASA   *)
(*     POWER and Open-Meteo services;                                      *)
(*   - padMissingDates (parsers/csvProcessor);                             *)
(*   - the App effect that runs the simulation again;                      *)
(*   - filterLastYearOfData, roundSunriseSunset and the cost of a period;  *)
(*   - FileUpload.onDrop with App's upload handlers;                       *)
(*   - NEM12CsvParser.parse.                                               *)
(*                                                                         *)
(* Energy values are integers (energy units), so the arithmetic of the    *)
(* model is exact; times are minutes.  A date string "YYYY-MM-DDTHH:mm" is  *)
(* modelled by the number of minutes it denotes as a wall-clock reading.   *)
(***************************************************************************)
EXTENDS Integers, Sequences, FiniteSets, TLC

VARIABLES
    \* ---- energy flow simulation and period aggregator
    flowPc,             \* "idle" | "loop" | "done": position in calculateConsumptionData
    energyCalculations, \* the EnergyCalculations object (a record; an undefined field is absent)
    systemDetails,      \* the EnergySystemDetails passed by App
    batteryLevel,       \* let batteryLevel of calculateConsumptionData
    flowI,              \* the loop index i (0-based; next period to process)
    chargedLog,         \* history: chargedToBattery of each processed period
    aggResult,          \* result of the last aggregateEnergyCalculationsToPeriod call
    runLog,             \* history: the finished calculateConsumptionData calls
    \* ---- App: debounced irradiance fetch
    clock,              \* time in ms
    debounceTimer,      \* App state debounceTimer: None or Some(timer id)
    timers,             \* pending setTimeout callbacks
    requests,           \* history: the handleLocationChange calls so far
    fetches,            \* fetchSolarData calls awaiting getSolarIrradiance
    fetchLog,           \* history: the fetchSolarData calls started, with their outcome
    rawSolarIrradiance, \* App state rawSolarIrradiance: None or Some(location)
    isLoadingSolar,     \* App state isLoadingSolar
    solarError,         \* App state solarError: None or Some(message)
    appCalculations,    \* App state energyCalculations, as far as the fetch touches it
    \* ---- App and FileUpload: the upload of a file
    uploads,            \* history: the onDrop calls, each with what it still has to run
    isLoadingUpload,    \* App state isLoadingUpload
    uploadError,        \* App state uploadError: None or Some(message)
    \* ---- services and parsers, called as functions
    call                \* the call in progress: [fn, pc, args, result]

flowVars == <<flowPc, energyCalculations, systemDetails, batteryLevel, flowI,
              chargedLog, aggResult, runLog>>

fetchVars == <<clock, debounceTimer, timers, requests, fetches, fetchLog,
               rawSolarIrradiance, isLoadingSolar, solarError, appCalculations>>

uploadVars == <<uploads, isLoadingUpload, uploadError>>

vars == <<flowVars, fetchVars, uploadVars, call>>

\* No service or parser call in progress
LibQuiet == call = [fn |-> "none"]

\* No upload yet
UploadQuiet ==
    /\ uploads = <<>>
    /\ isLoadingUpload = FALSE
    /\ uploadError = <<>>

-----------------------------------------------------------------------------
\* Generic helpers

None == <<>>
Some(v) == <<v>>

Min(a, b) == IF a <= b THEN a ELSE b
Max(a, b) == IF a >= b THEN a ELSE b

RECURSIVE SumValues(_)
SumValues(s) == IF s = <<>> THEN 0 ELSE s[1].value + SumValues(Tail(s))

\* JavaScript truthiness of a "number | null" field: null and 0 are falsy.
Truthy(opt) == opt # None /\ opt[1] # 0

\* a || b on "number | null" operands
OrElse(a, b) == IF Truthy(a) THEN a ELSE b

\* (x) || 0
OrZero(opt) == IF Truthy(opt) THEN opt[1] ELSE 0

-----------------------------------------------------------------------------
\* Bounds of the flow model

MaxPeriods == 3

\* Energy per period, in energy units
EnergyValues == {0, 1, 3}

BatteryCapacities == {0, 2}

\* (periodInMinutes, first timestamp in wall-clock minutes): half-hourly data
\* from 13:00 of day 0 (enters the 14:00 peak window) and hourly data from 23:00
\* (crosses midnight).
Timings == { [period |-> 30, start |-> 780], [period |-> 60, start |-> 1380] }

ExportLimitDefault == 5

\* peakCost / offPeakCost / feedInTariff / exportLimit as entered in CostInputs
\* (null when the field is blank)
CostChoices ==
    { [peakCost |-> None,    offPeakCost |-> None,    feedInTariff |-> None,
       exportLimit |-> Some(ExportLimitDefault)],
      [peakCost |-> Some(3), offPeakCost |-> Some(2), feedInTariff |-> Some(1),
       exportLimit |-> None],
      [peakCost |-> Some(3), offPeakCost |-> None,    feedInTariff |-> Some(1),
       exportLimit |-> Some(ExportLimitDefault)] }

\* A series of n entries spaced `period` from `start`, values given by vs
MkSeries(start, period, vs) ==
    [k \in 1..Len(vs) |-> [date |-> start + (k - 1) * period, value |-> vs[k]]]

ValueSeqs(n) == [1..n -> EnergyValues]

-----------------------------------------------------------------------------
\* calculateConsumptionData: the steps of one loop iteration

\* Mutant of usedSolarOf: solar is taken to cover the whole consumption
M_usedSolarOf_AllConsumption(consumption, solar) == consumption

\* 1. Use solar to meet consumption
usedSolarOf(consumption, solar) == Min(consumption, solar)

\* Mutant of usedBatteryOf: the whole battery level is drawn, not min(consumption, level)
M_usedBatteryOf_NoMin(batteryCapacity, consumption, level) ==
    IF batteryCapacity > 0 /\ consumption > 0 /\ level > 0 THEN level ELSE 0

\* 2. Use battery to meet remaining consumption
usedBatteryOf(batteryCapacity, consumption, level) ==
    IF batteryCapacity > 0 /\ consumption > 0 /\ level > 0
    THEN Min(consumption, level)
    ELSE 0

\* 3. Use grid for any remaining consumption
usedGridOf(consumption) == IF consumption > 0 THEN consumption ELSE 0

\* Mutant of chargedToBatteryOf: charging stops one unit short of the capacity
M_chargedToBatteryOf_StopsShort(batteryCapacity, solar, level) ==
    IF batteryCapacity > 0 /\ solar > 0 /\ level < batteryCapacity
    THEN Min(solar, batteryCapacity - level - 1)
    ELSE 0

\* Mutant of chargedToBatteryOf: all excess solar is charged, ignoring the room left
M_chargedToBatteryOf_NoCap(batteryCapacity, solar, level) ==
    IF batteryCapacity > 0 /\ solar > 0 /\ level < batteryCapacity THEN solar ELSE 0

\* 4. Use excess solar to charge battery (up to capacity)
chargedToBatteryOf(batteryCapacity, solar, level) ==
    IF batteryCapacity > 0 /\ solar > 0 /\ level < batteryCapacity
    THEN Min(solar, batteryCapacity - level)
    ELSE 0

\* Mutant of remainingSolarOf: the charged energy is not taken off the solar left
M_remainingSolarOf_NotReduced(solar, chargedToBattery) == solar

\* solar -= chargedToBattery (line 85)
remainingSolarOf(solar, chargedToBattery) == solar - chargedToBattery

\* 5. Whatever solar is left is pushed to exportedSolar (exportLimit is not read)
exportedOf(solar, sd) == solar

\* new Date(date).getHours(): the local hour of a local wall-clock string
getHours(date) == (date \div 60) % 24

getDay(date) == date \div 1440

isPeakHour(hour) == hour >= 14 /\ hour < 20

\* const rate = (isPeak ? peakCost : (offPeakCost || peakCost)) || 0
rateOf(date, sd) ==
    OrZero(IF isPeakHour(getHours(date))
           THEN sd.peakCost
           ELSE OrElse(sd.offPeakCost, sd.peakCost))

costOf(usedGrid, exported, rate, sd) ==
    (IF usedGrid > 0 THEN usedGrid * rate ELSE 0)
    - (IF Truthy(sd.feedInTariff) /\ exported > 0
       THEN exported * sd.feedInTariff[1] ELSE 0)

\* The EnergyCalculations `base` built by App before it calls calculateConsumptionData
BaseCalculations(period, cons, gen) ==
    [periodInMinutes |-> period, generationSolar |-> gen, totalConsumption |-> cons]

FlowInit ==
    /\ flowPc = "idle"
    /\ \E t \in Timings, nc \in {0, MaxPeriods}, ng \in {MaxPeriods - 1, MaxPeriods} :
         \E cv \in ValueSeqs(nc), gv \in ValueSeqs(ng) :
            energyCalculations =
                BaseCalculations(t.period, MkSeries(t.start, t.period, cv),
                                 MkSeries(t.start, t.period, gv))
    /\ \E cap \in BatteryCapacities, c \in CostChoices :
         systemDetails = [batteryCapacity |-> cap, peakCost |-> c.peakCost,
                          offPeakCost |-> c.offPeakCost,
                          feedInTariff |-> c.feedInTariff,
                          exportLimit |-> c.exportLimit]
    /\ batteryLevel = 0
    /\ flowI = 0
    /\ chargedLog = <<>>
    /\ aggResult = [kind |-> "none"]
    /\ runLog = <<>>

\* Mutant of CalcStart: batteryLevel keeps the value the previous run left
M_CalcStart_StaleBattery ==
    /\ flowPc = "idle"
    /\ flowPc' = "loop"
    /\ flowI' = 0
    /\ chargedLog' = <<>>
    /\ energyCalculations' =
         [periodInMinutes |-> energyCalculations.periodInMinutes,
          generationSolar |-> energyCalculations.generationSolar,
          totalConsumption |-> energyCalculations.totalConsumption,
          exportedSolar |-> <<>>, consumptionGrid |-> <<>>,
          consumptionSolar |-> <<>>, consumptionBattery |-> <<>>,
          consumptionCost |-> <<>>, nonSolarConsumptionCost |-> <<>>]
    /\ UNCHANGED <<systemDetails, batteryLevel, aggResult, runLog>>
    /\ UNCHANGED <<fetchVars, uploadVars, call>>

\* Lines 35-48: destructure systemDetails, batteryLevel = 0, reset the output arrays
CalcStart ==
    /\ flowPc = "idle"
    /\ flowPc' = "loop"
    /\ batteryLevel' = 0
    /\ flowI' = 0
    /\ chargedLog' = <<>>
    /\ energyCalculations' =
         [periodInMinutes |-> energyCalculations.periodInMinutes,
          generationSolar |-> energyCalculations.generationSolar,
          totalConsumption |-> energyCalculations.totalConsumption,
          exportedSolar |-> <<>>, consumptionGrid |-> <<>>,
          consumptionSolar |-> <<>>, consumptionBattery |-> <<>>,
          consumptionCost |-> <<>>, nonSolarConsumptionCost |-> <<>>]
    /\ UNCHANGED <<systemDetails, aggResult, runLog>>
    /\ UNCHANGED <<fetchVars, uploadVars, call>>

\* One iteration of the for loop (lines 50-107)
CalcStep ==
    /\ flowPc = "loop"
    /\ flowI < Len(energyCalculations.totalConsumption)
    /\ LET ec == energyCalculations
           sd == systemDetails
           consumptionEntry == ec.totalConsumption[flowI + 1]
           date == consumptionEntry.date
           consumption0 == consumptionEntry.value
           solar0 == IF flowI + 1 <= Len(ec.generationSolar)
                     THEN ec.generationSolar[flowI + 1].value ELSE 0
           usedSolar == usedSolarOf(consumption0, solar0)
           consumption1 == consumption0 - usedSolar
           solar1 == solar0 - usedSolar
           usedBattery == usedBatteryOf(sd.batteryCapacity, consumption1, batteryLevel)
           level1 == batteryLevel - usedBattery
           consumption2 == consumption1 - usedBattery
           usedGrid == usedGridOf(consumption2)
           chargedToBattery == chargedToBatteryOf(sd.batteryCapacity, solar1, level1)
           level2 == level1 + chargedToBattery
           solar2 == remainingSolarOf(solar1, chargedToBattery)
           exported == exportedOf(solar2, sd)
           rate == rateOf(date, sd)
           cost == costOf(usedGrid, exported, rate, sd)
       IN /\ energyCalculations' =
                [ec EXCEPT
                   !.consumptionSolar = Append(@, [date |-> date, value |-> usedSolar]),
                   !.consumptionBattery = Append(@, [date |-> date, value |-> usedBattery]),
                   !.consumptionGrid = Append(@, [date |-> date, value |-> usedGrid]),
                   !.exportedSolar = Append(@, [date |-> date, value |-> exported]),
                   !.consumptionCost = Append(@, cost),
                   !.nonSolarConsumptionCost = Append(@, consumption0 * rate)]
          /\ batteryLevel' = level2
          /\ chargedLog' = Append(chargedLog, chargedToBattery)
    /\ flowI' = flowI + 1
    /\ UNCHANGED <<flowPc, systemDetails, aggResult, runLog>>
    /\ UNCHANGED <<fetchVars, uploadVars, call>>

\* Loop exit and return (line 109)
CalcReturn ==
    /\ flowPc = "loop"
    /\ flowI >= Len(energyCalculations.totalConsumption)
    /\ flowPc' = "done"
    /\ runLog' = Append(runLog, [systemDetails |-> systemDetails,
                                 returned |-> energyCalculations])
    /\ UNCHANGED <<energyCalculations, systemDetails, batteryLevel, flowI,
                   chargedLog, aggResult>>
    /\ UNCHANGED <<fetchVars, uploadVars, call>>

-----------------------------------------------------------------------------
\* aggregateEnergyCalculationsToPeriod (utils/chartUtils.ts)

TimePeriods == {"minute", "hour", "day", "week", "month", "year"}

periodMap(tp) ==
    CASE tp = "minute" -> 1
      [] tp = "hour"   -> 60
      [] tp = "day"    -> 1440
      [] tp = "week"   -> 10080
      [] tp = "month"  -> 43200
      [] tp = "year"   -> 525600

\* Offsets of the browser's time zone from UTC, in minutes (local = UTC + offset)
TzOffsets == {0, 600}

\* new Date(s).getTime() for a date string without zone: read as local time
getMs(date, tz) == date - tz

\* The EnergyPeriodEntry[] fields that aggregateArray is applied to (lines 68-74)
SeriesFields == {"exportedSolar", "unusedSolar", "generationSolar", "consumptionGrid",
                 "consumptionSolar", "consumptionBattery", "totalConsumption"}

\* Mutant of aggregateLoop: the entries left in the last, shorter block are dropped
RECURSIVE M_aggregateLoop_NoFlush(_, _, _, _, _, _, _)
M_aggregateLoop_NoFlush(entries, k, block, blockStart, aggregated, span, tz) ==
    IF k > Len(entries) THEN aggregated
    ELSE LET entryDate == getMs(entries[k].date, tz)
             start == IF blockStart = None THEN entryDate ELSE blockStart[1]
             block1 == Append(block, entries[k])
             blockElapsed == entryDate - start
         IN IF blockElapsed >= span
            THEN M_aggregateLoop_NoFlush(entries, k + 1, <<>>, None,
                     Append(aggregated, [date |-> start, value |-> SumValues(block1)]),
                     span, tz)
            ELSE M_aggregateLoop_NoFlush(entries, k + 1, block1, Some(start),
                                         aggregated, span, tz)

\* The for loop of aggregateArray (lines 39-60), from entry k on.  blockStart is
\* None or Some(epoch minutes); toISOString() of a Date is its UTC reading.
RECURSIVE aggregateLoop(_, _, _, _, _, _, _)
aggregateLoop(entries, k, block, blockStart, aggregated, span, tz) ==
    IF k > Len(entries)
    THEN IF Len(block) > 0 /\ blockStart # None
         THEN Append(aggregated, [date |-> blockStart[1], value |-> SumValues(block)])
         ELSE aggregated
    ELSE LET entryDate == getMs(entries[k].date, tz)
             start == IF blockStart = None THEN entryDate ELSE blockStart[1]
             block1 == Append(block, entries[k])
             blockElapsed == entryDate - start
         IN IF blockElapsed >= span
            THEN aggregateLoop(entries, k + 1, <<>>, None,
                     Append(aggregated, [date |-> start, value |-> SumValues(block1)]),
                     span, tz)
            ELSE aggregateLoop(entries, k + 1, block1, Some(start), aggregated, span, tz)

\* Mutant of aggregateArrayThrows: the granularity check is missing
M_aggregateArrayThrows_Never(periodInMinutes, targetPeriod) == FALSE

\* aggregateArray throws (line 31-35): entries defined, periodInMinutes truthy, target finer
aggregateArrayThrows(periodInMinutes, targetPeriod) ==
    periodInMinutes # 0 /\ targetPeriod < periodInMinutes

\* aggregateArray when it returns (entries is a defined array)
aggregateArray(entries, periodInMinutes, targetPeriod, tz) ==
    IF periodInMinutes = 0 THEN entries
    ELSE IF targetPeriod = periodInMinutes THEN entries
    ELSE aggregateLoop(entries, 1, <<>>, None, <<>>, targetPeriod - periodInMinutes, tz)

aggregateEnergyCalculationsToPeriod(calculations, timePeriod, tz) ==
    LET targetPeriod == periodMap(timePeriod)
        periodInMinutes == calculations.periodInMinutes
        present == SeriesFields \cap DOMAIN calculations
    IN IF present # {} /\ aggregateArrayThrows(periodInMinutes, targetPeriod)
       THEN [kind |-> "error", timePeriod |-> timePeriod, tz |-> tz]
       ELSE [kind |-> "ok", timePeriod |-> timePeriod, tz |-> tz,
             value |-> [f \in DOMAIN calculations |->
                          IF f = "periodInMinutes" THEN targetPeriod
                          ELSE IF f \in SeriesFields
                          THEN aggregateArray(calculations[f], periodInMinutes,
                                              targetPeriod, tz)
                          ELSE calculations[f]]]

\* EnergyChart renders the simulated energyCalculations at the selected time period
Aggregate ==
    /\ flowPc = "done"
    /\ aggResult.kind = "none"
    /\ \E tp \in TimePeriods, tz \in TzOffsets :
          aggResult' = aggregateEnergyCalculationsToPeriod(energyCalculations, tp, tz)
    /\ UNCHANGED <<flowPc, energyCalculations, systemDetails, batteryLevel, flowI,
                   chargedLog, runLog>>
    /\ UNCHANGED <<fetchVars, uploadVars, call>>

FlowNext == CalcStart \/ CalcStep \/ CalcReturn \/ Aggregate

\* The fetch side of App at rest
FetchQuiet ==
    /\ clock = 0
    /\ debounceTimer = None
    /\ timers = {}
    /\ requests = <<>>
    /\ fetches = {}
    /\ fetchLog = <<>>
    /\ rawSolarIrradiance = None
    /\ isLoadingSolar = FALSE
    /\ solarError = None
    /\ appCalculations = [exists |-> FALSE, generationSolar |-> None]

FlowSpecInit == FlowInit /\ FetchQuiet /\ UploadQuiet /\ LibQuiet

SpecFlow == FlowSpecInit /\ [][FlowNext]_vars

-----------------------------------------------------------------------------
\* App.tsx: handleLocationChange, the debounce timer and fetchSolarData

DebounceMs == 750

\* Granularity of the model's clock and the time it covers, in ms
TickMs == 250
MaxClock == 2000

\* Number of handleLocationChange calls in a run
MaxRequests == 3

\* Coordinates as LocationMapInput passes them: numbers, or null for a blank field
Coordinates ==
    { [latitude |-> Some(-38), longitude |-> Some(145)],
      [latitude |-> Some(39),  longitude |-> Some(-77)],
      [latitude |-> None,      longitude |-> Some(145)],
      [latitude |-> Some(95),  longitude |-> Some(0)] }

validateCoordinates(c) ==
    IF c.latitude = None \/ c.longitude = None THEN FALSE
    ELSE IF c.latitude[1] < -90 \/ c.latitude[1] > 90 THEN FALSE
    ELSE IF c.longitude[1] < -180 \/ c.longitude[1] > 180 THEN FALSE
    ELSE TRUE

\* Mutant of clearTimeout: the pending callback is not cancelled
M_clearTimeout_Noop(pending, id) == pending

\* clearTimeout(id): cancels the callback if it is still pending, else does nothing
clearTimeout(pending, id) == {t \in pending : t.id # id}

FetchInit ==
    /\ clock = 0
    /\ debounceTimer = None
    /\ timers = {}
    /\ requests = <<>>
    /\ fetches = {}
    /\ fetchLog = <<>>
    /\ rawSolarIrradiance = None
    /\ isLoadingSolar = FALSE
    /\ solarError = None
    /\ \E e \in BOOLEAN : appCalculations = [exists |-> e, generationSolar |-> None]

\* handleLocationChange(latitude, longitude), lines 532-555, with the state updates
\* of the render that follows it
handleLocationChange(c) ==
    /\ Len(requests) < MaxRequests
    /\ LET cleared == IF debounceTimer # None
                      THEN clearTimeout(timers, debounceTimer[1]) ELSE timers
           id == Len(requests) + 1
       IN IF validateCoordinates(c)
          THEN /\ timers' = cleared \cup
                     {[id |-> id, coords |-> c, due |-> clock + DebounceMs,
                       ecExists |-> appCalculations.exists]}
               /\ debounceTimer' = Some(id)
               /\ UNCHANGED <<appCalculations, solarError>>
          ELSE /\ timers' = cleared
               /\ debounceTimer' = None
               /\ appCalculations' =
                     IF appCalculations.exists
                     THEN [appCalculations EXCEPT !.generationSolar = None]
                     ELSE appCalculations
               /\ solarError' = None
    /\ requests' = Append(requests, [coords |-> c, at |-> clock,
                                     valid |-> validateCoordinates(c)])
    /\ UNCHANGED <<clock, fetches, fetchLog, rawSolarIrradiance, isLoadingSolar>>
    /\ UNCHANGED <<flowVars, uploadVars, call>>

LocationChange == \E c \in Coordinates : handleLocationChange(c)

\* The setTimeout callback runs fetchSolarData up to its await (lines 509-514)
TimerFire ==
    /\ \E t \in timers :
         /\ clock >= t.due
         /\ timers' = timers \ {t}
         /\ fetches' = fetches \cup {[req |-> t.id, coords |-> t.coords,
                                      ecExists |-> t.ecExists]}
         /\ fetchLog' = Append(fetchLog, [req |-> t.id, coords |-> t.coords,
                                          at |-> clock, outcome |-> "pending"])
    /\ isLoadingSolar' = TRUE
    /\ solarError' = None
    /\ UNCHANGED <<clock, debounceTimer, requests, rawSolarIrradiance, appCalculations>>
    /\ UNCHANGED <<flowVars, uploadVars, call>>

\* Position in fetchLog of the fetch started for request r
LogIndex(r) == CHOOSE k \in 1..Len(fetchLog) : fetchLog[k].req = r

\* getSolarIrradiance resolves: lines 515 and 528, then the effect of lines 456-480
\* recomputes the generation from the new rawSolarIrradiance
FetchResolve ==
    /\ \E f \in fetches :
         /\ fetches' = fetches \ {f}
         /\ rawSolarIrradiance' = Some(f.coords)
         /\ appCalculations' = [exists |-> TRUE, generationSolar |-> Some(f.coords)]
         /\ fetchLog' = [fetchLog EXCEPT ![LogIndex(f.req)].outcome = "resolved"]
    /\ isLoadingSolar' = FALSE
    /\ UNCHANGED <<clock, debounceTimer, timers, requests, solarError>>
    /\ UNCHANGED <<flowVars, uploadVars, call>>

\* getSolarIrradiance rejects: lines 516-529
FetchReject ==
    /\ \E f \in fetches :
         /\ fetches' = fetches \ {f}
         /\ appCalculations' =
               IF f.ecExists
               THEN [exists |-> TRUE, generationSolar |-> None]
               ELSE appCalculations
         /\ fetchLog' = [fetchLog EXCEPT ![LogIndex(f.req)].outcome = "rejected"]
    /\ solarError' = Some("error")
    /\ isLoadingSolar' = FALSE
    /\ UNCHANGED <<clock, debounceTimer, timers, requests, rawSolarIrradiance>>
    /\ UNCHANGED <<flowVars, uploadVars, call>>

\* Time passes; a timer that is due fires before the clock moves on
Tick ==
    /\ clock + TickMs <= MaxClock
    /\ \A t \in timers : clock < t.due
    /\ clock' = clock + TickMs
    /\ UNCHANGED <<debounceTimer, timers, requests, fetches, fetchLog,
                   rawSolarIrradiance, isLoadingSolar, solarError, appCalculations>>
    /\ UNCHANGED <<flowVars, uploadVars, call>>

FetchNext == LocationChange \/ TimerFire \/ FetchResolve \/ FetchReject \/ Tick

\* The flow simulation at rest
FlowQuiet ==
    /\ flowPc = "off"
    /\ energyCalculations = <<>>
    /\ systemDetails = <<>>
    /\ batteryLevel = 0
    /\ flowI = 0
    /\ chargedLog = <<>>
    /\ aggResult = [kind |-> "none"]
    /\ runLog = <<>>

FetchSpecInit == FetchInit /\ FlowQuiet /\ UploadQuiet /\ LibQuiet

SpecFetch == FetchSpecInit /\ [][FetchNext]_vars

-----------------------------------------------------------------------------
\* getApiSolarIrradiance (services/solarIrradianceService.ts)

\* Days the service requires of the NASA POWER response
DaysInYear == 365

\* What the live source does with the request.  status: the request itself
\* fails ("networkError"), the response is not ok ("httpError"), or a body
\* arrives ("ok") holding count daily values of the given quality.
ApiResponses ==
    [status : {"networkError", "httpError", "ok"},
     count  : {0, DaysInYear - 1, DaysInYear},
     values : {"positive", "someNegative", "allZero"}]

\* The bundled reference dataset ghi.json: usable, or without the parameter table
LocalDatasets == {"valid", "broken"}

\* latitude / longitude arguments: undefined or a number
CoordinateArgs == {None, Some(-38)}

Returned(v) == [kind |-> "returned", value |-> v]
Thrown(m) == [kind |-> "thrown", value |-> m]

\* fetchNASAPowerData of the current service: the body must hold exactly 365
\* values; values <= 0 or NaN are replaced by the average of the others (or 5.0)
fetchNASAPowerData(response) ==
    IF response.status = "networkError" THEN Thrown("Failed to fetch")
    ELSE IF response.status = "httpError" THEN Thrown("NASA POWER API request failed")
    ELSE IF response.count = 0 THEN Thrown("No irradiance data received from NASA POWER API")
    ELSE IF response.count # DaysInYear
    THEN Thrown("NASA POWER API did not return 365 daily values")
    ELSE Returned([count |-> response.count, values |-> "positive"])

\* The catch block of the current getApiSolarIrradiance: every error is rethrown,
\* under a message chosen by apiError.message.includes(...)
rethrow(message) ==
    IF message = "NASA POWER API request failed"
    THEN Thrown("Unable to fetch solar data for this location")
    ELSE IF message = "No irradiance data received from NASA POWER API"
    THEN Thrown("No solar data available for the selected location")
    ELSE IF message = "Invalid API response"
    THEN Thrown("Invalid solar data received for this location")
    ELSE Thrown("Failed to retrieve solar data for the selected location")

\* getApiSolarIrradiance, current service: coordinates are required, and a
\* failure of the live source is raised to the caller
getApiSolarIrradiance(latitude, longitude, response) ==
    IF latitude = None \/ longitude = None
    THEN Thrown("Location coordinates are required to fetch solar data")
    ELSE LET apiData == fetchNASAPowerData(response)
         IN IF apiData.kind = "thrown" THEN rethrow(apiData.value)
            ELSE IF apiData.value.count # DaysInYear THEN rethrow("Invalid API response")
            ELSE Returned([source |-> "api", days |-> apiData.value.count])

\* fetchNASAPowerData of the earlier service: the body is regrouped by calendar
\* day and padded to 365 values, then normalised by its maximum
fetchNASAPowerData_fallback(response) ==
    IF response.status = "networkError" THEN Thrown("Failed to fetch")
    ELSE IF response.status = "httpError" THEN Thrown("NASA POWER API request failed")
    ELSE IF response.count = 0 THEN Thrown("No irradiance data received from NASA POWER API")
    ELSE IF response.values = "allZero" THEN Thrown("All irradiance values are zero")
    ELSE Returned([count |-> DaysInYear, values |-> response.values])

\* processSolarIrradiance: the bundled dataset, normalised
processSolarIrradiance(local) ==
    IF local = "valid" THEN Returned([count |-> DaysInYear, values |-> "positive"])
    ELSE Thrown("Cannot read properties of undefined")

\* The validation both tiers of the earlier service pass through: 365 numbers in [0, 1]
validIrradiance(data) == data.count = DaysInYear /\ data.values = "positive"

\* getApiSolarIrradiance, earlier service: live source, then the bundled
\* dataset, then the sinusoid; it never raises
getApiSolarIrradiance_fallback(latitude, longitude, response, local) ==
    LET apiData == fetchNASAPowerData_fallback(response)
        irradianceData == processSolarIrradiance(local)
    IN IF latitude # None /\ longitude # None /\ apiData.kind = "returned"
          /\ validIrradiance(apiData.value)
       THEN Returned([source |-> "api", days |-> apiData.value.count])
       ELSE IF irradianceData.kind = "returned"
       THEN Returned([source |-> "local",
                      days |-> irradianceData.value.count])
       ELSE Returned([source |-> "sinusoid", days |-> DaysInYear])

IrradianceInit ==
    \E lat \in CoordinateArgs, lon \in CoordinateArgs, r \in ApiResponses,
       l \in LocalDatasets :
        call = [fn |-> "getApiSolarIrradiance", pc |-> "pending",
                args |-> [latitude |-> lat, longitude |-> lon, response |-> r,
                          local |-> l],
                result |-> None]

\* A call of the current service
GetApiSolarIrradiance ==
    /\ call.fn = "getApiSolarIrradiance"
    /\ call.pc = "pending"
    /\ call' = [call EXCEPT !.pc = "current",
                  !.result = Some(getApiSolarIrradiance(call.args.latitude,
                                      call.args.longitude, call.args.response))]
    /\ UNCHANGED <<flowVars, fetchVars, uploadVars>>

\* A call of the earlier service
GetApiSolarIrradianceFallback ==
    /\ call.fn = "getApiSolarIrradiance"
    /\ call.pc = "pending"
    /\ call' = [call EXCEPT !.pc = "earlier",
                  !.result = Some(getApiSolarIrradiance_fallback(call.args.latitude,
                                      call.args.longitude, call.args.response,
                                      call.args.local))]
    /\ UNCHANGED <<flowVars, fetchVars, uploadVars>>

-----------------------------------------------------------------------------
\* getEnergyCsvParser (parsers/csvProcessor.ts) and the parsers' isValid

HeaderKeys == {"Usage Type", "Amount Used", "NMI", "CON/GEN", "datetime_utc", "watt_hours"}

\* Parsed CSV data as isValid reads it: the number of rows, whether data[0] is
\* an object (header: true) or an array (header: false), the keys of the object,
\* the first cell of the array
CsvData ==
    {[length |-> 0, first |-> "none", keys |-> {}, cell |-> ""]}
    \cup {[length |-> 1, first |-> "object", keys |-> K, cell |-> ""] :
             K \in SUBSET HeaderKeys}
    \cup {[length |-> 1, first |-> "array", keys |-> {}, cell |-> c] :
             c \in {"100", "200"}}

OriginCsvParser_isValid(data) ==
    /\ data.length > 0 /\ data.first = "object"
    /\ "Usage Type" \in data.keys /\ "Amount Used" \in data.keys

NEM12CsvParser_isValid(data) ==
    data.length > 0 /\ data.first = "array" /\ data.cell = "100"

JemenaCsvParser_isValid(data) ==
    /\ data.length > 0 /\ data.first = "object"
    /\ "NMI" \in data.keys /\ "CON/GEN" \in data.keys

PowerpalCsvParser_isValid(data) ==
    /\ data.length > 0 /\ data.first = "object"
    /\ "datetime_utc" \in data.keys /\ "watt_hours" \in data.keys

isValid(parser, data) ==
    CASE parser = "OriginCsvParser"   -> OriginCsvParser_isValid(data)
      [] parser = "NEM12CsvParser"    -> NEM12CsvParser_isValid(data)
      [] parser = "JemenaCsvParser"   -> JemenaCsvParser_isValid(data)
      [] parser = "PowerpalCsvParser" -> PowerpalCsvParser_isValid(data)

parsers == <<"OriginCsvParser", "NEM12CsvParser", "JemenaCsvParser", "PowerpalCsvParser">>

\* Mutant of find: the last element that satisfies isValid
RECURSIVE M_find_Last(_, _, _)
M_find_Last(list, data, i) ==
    IF i > Len(list) THEN None
    ELSE LET later == M_find_Last(list, data, i + 1)
         IN IF later # None THEN later
            ELSE IF isValid(list[i], data) THEN Some(list[i]) ELSE None

\* Array.prototype.find with the predicate parser.isValid(data), from index i on
RECURSIVE find(_, _, _)
find(list, data, i) ==
    IF i > Len(list) THEN None
    ELSE IF isValid(list[i], data) THEN Some(list[i])
    ELSE find(list, data, i + 1)

getEnergyCsvParser(data) ==
    LET parser == find(parsers, data, 1)
    IN IF parser # None THEN Returned(parser[1])
       ELSE Thrown("No suitable CSV parser found for the provided data format.")

ParserInit ==
    \E d \in CsvData :
        call = [fn |-> "getEnergyCsvParser", pc |-> "pending", args |-> [data |-> d],
                result |-> None]

GetEnergyCsvParser ==
    /\ call.fn = "getEnergyCsvParser"
    /\ call.pc = "pending"
    /\ call' = [call EXCEPT !.pc = "done",
                  !.result = Some(getEnergyCsvParser(call.args.data))]
    /\ UNCHANGED <<flowVars, fetchVars, uploadVars>>

-----------------------------------------------------------------------------
\* aggregateToInterval (parsers/csvProcessor.ts)

\* Longest series resampled
MaxSeries == 3

\* Values divisible by every split factor used, so that value / nBlocks is exact
ResampleValues == {0, 6, 12}

\* (P, F): the spacing of the series and a finer period that divides it
ResamplePeriods == { [P |-> 60, F |-> 30], [P |-> 60, F |-> 20], [P |-> 120, F |-> 60] }

\* First timestamps (wall-clock minutes): 00:00 and 00:30 of the second day
ResampleStarts == {1440, 1470}

\* Math.round(a / b) for a >= 0, b > 0
MathRound(a, b) == (2 * a + b) \div (2 * b)

\* insertion of e into a list sorted by getMs, after its equals (the sort is stable)
RECURSIVE insertByDate(_, _, _)
insertByDate(list, e, tz) ==
    IF list = <<>> THEN <<e>>
    ELSE IF getMs(e.date, tz) < getMs(list[1].date, tz) THEN <<e>> \o list
    ELSE <<list[1]>> \o insertByDate(Tail(list), e, tz)

\* [...entries].sort((a, b) => getMs(a.date) - getMs(b.date))
RECURSIVE sortByDate(_, _)
sortByDate(entries, tz) ==
    IF entries = <<>> THEN <<>>
    ELSE insertByDate(sortByDate(SubSeq(entries, 1, Len(entries) - 1), tz),
                      entries[Len(entries)], tz)

\* Mutant of aggregateUp: the entry that opens a new block is left out of its sum
RECURSIVE M_aggregateUp_DropsOpener(_, _, _, _, _, _, _, _)
M_aggregateUp_DropsOpener(sorted, k, blockStart, blockSum, blockCount, result, targetIntervalMs, tz) ==
    IF k > Len(sorted)
    THEN IF blockCount > 0
         THEN Append(result, [date |-> blockStart, value |-> blockSum])
         ELSE result
    ELSE LET entryMs == getMs(sorted[k].date, tz)
             entryBlockStart == entryMs - (entryMs % targetIntervalMs)
         IN IF entryBlockStart # blockStart /\ blockCount > 0
            THEN M_aggregateUp_DropsOpener(sorted, k + 1, entryBlockStart, 0, 1,
                     Append(result, [date |-> blockStart, value |-> blockSum]),
                     targetIntervalMs, tz)
            ELSE M_aggregateUp_DropsOpener(sorted, k + 1, blockStart,
                     blockSum + sorted[k].value, blockCount + 1, result,
                     targetIntervalMs, tz)

\* The aggregating loop (lines 299-321), from entry k on.  The date pushed is
\* new Date(blockStart).toISOString().slice(0, 16): the UTC reading of blockStart.
RECURSIVE aggregateUp(_, _, _, _, _, _, _, _)
aggregateUp(sorted, k, blockStart, blockSum, blockCount, result, targetIntervalMs, tz) ==
    IF k > Len(sorted)
    THEN IF blockCount > 0
         THEN Append(result, [date |-> blockStart, value |-> blockSum])
         ELSE result
    ELSE LET entryMs == getMs(sorted[k].date, tz)
             entryBlockStart == entryMs - (entryMs % targetIntervalMs)
         IN IF entryBlockStart # blockStart /\ blockCount > 0
            THEN aggregateUp(sorted, k + 1, entryBlockStart, sorted[k].value, 1,
                     Append(result, [date |-> blockStart, value |-> blockSum]),
                     targetIntervalMs, tz)
            ELSE aggregateUp(sorted, k + 1, blockStart, blockSum + sorted[k].value,
                     blockCount + 1, result, targetIntervalMs, tz)

\* The nBlocks entries one entry is split into (lines 331-334); the date pushed
\* is the UTC reading of entryMs + b * targetIntervalMs
splitEntry(entryMs, value, nBlocks, targetIntervalMs) ==
    [b \in 1..nBlocks |->
        [date |-> entryMs + (b - 1) * targetIntervalMs, value |-> value \div nBlocks]]

\* The splitting loop (lines 325-335), from entry i on
RECURSIVE splitDown(_, _, _, _, _)
splitDown(sorted, i, rawIntervalMs, targetIntervalMs, tz) ==
    IF i > Len(sorted) THEN <<>>
    ELSE LET entryMs == getMs(sorted[i].date, tz)
             nextMs == IF i + 1 <= Len(sorted) THEN getMs(sorted[i + 1].date, tz)
                       ELSE entryMs + rawIntervalMs
             nBlocks == MathRound(nextMs - entryMs, targetIntervalMs)
         IN splitEntry(entryMs, sorted[i].value, nBlocks, targetIntervalMs)
            \o splitDown(sorted, i + 1, rawIntervalMs, targetIntervalMs, tz)

aggregateToInterval(entries, periodInMinutes, tz) ==
    IF Len(entries) = 0 THEN <<>>
    ELSE LET sorted == sortByDate(entries, tz)
             rawIntervalMs == IF Len(sorted) > 1
                              THEN getMs(sorted[2].date, tz) - getMs(sorted[1].date, tz)
                              ELSE periodInMinutes
             targetIntervalMs == periodInMinutes
             firstMs == getMs(sorted[1].date, tz)
         IN IF rawIntervalMs = targetIntervalMs THEN sorted
            ELSE IF rawIntervalMs < targetIntervalMs
            THEN aggregateUp(sorted, 1, firstMs - (firstMs % targetIntervalMs), 0, 0,
                             <<>>, targetIntervalMs, tz)
            ELSE splitDown(sorted, 1, rawIntervalMs, targetIntervalMs, tz)

\* A gap-free series of spacing P from the given start, and the round trip asked of it
ResampleInit ==
    \E n \in 1..MaxSeries, pf \in ResamplePeriods, start \in ResampleStarts,
       tz \in TzOffsets :
      \E vs \in [1..n -> ResampleValues] :
        call = [fn |-> "aggregateToInterval", pc |-> "pending",
                args |-> [series |-> MkSeries(start, pf.P, vs), P |-> pf.P,
                          F |-> pf.F, tz |-> tz],
                result |-> None]

\* aggregateToInterval(series, F)
SplitToFiner ==
    /\ call.fn = "aggregateToInterval"
    /\ call.pc = "pending"
    /\ call' = [call EXCEPT !.pc = "split",
                  !.result = Some(aggregateToInterval(call.args.series, call.args.F,
                                                      call.args.tz))]
    /\ UNCHANGED <<flowVars, fetchVars, uploadVars>>

\* aggregateToInterval(the split series, P)
AggregateBack ==
    /\ call.fn = "aggregateToInterval"
    /\ call.pc = "split"
    /\ call' = [call EXCEPT !.pc = "done",
                  !.result = Some(aggregateToInterval(call.result[1], call.args.P,
                                                      call.args.tz))]
    /\ UNCHANGED <<flowVars, fetchVars, uploadVars>>

-----------------------------------------------------------------------------
\* aggregateToInterval on a series finer than the target period

\* Longest series aggregated
MaxFine == 7

\* (raw, target): the spacing of the series and the coarser period asked for;
\* 5-minute readings to half hours, and 10-minute readings to half hours
AggregatePeriods == { [raw |-> 5, target |-> 30], [raw |-> 10, target |-> 30] }

\* First timestamps: 00:00 and 00:10 of the second day (the second one is not
\* on a half-hour boundary)
AggregateStarts == {1440, 1450}

FineValues == {1, 2}

AggregateInit ==
    \E n \in 2..MaxFine, p \in AggregatePeriods, start \in AggregateStarts,
       tz \in TzOffsets :
      \E vs \in [1..n -> FineValues] :
        call = [fn |-> "aggregateUp", pc |-> "pending",
                args |-> [series |-> MkSeries(start, p.raw, vs), raw |-> p.raw,
                          target |-> p.target, tz |-> tz],
                result |-> None]

\* aggregateToInterval(series, target) with target coarser than the series
AggregateToCoarser ==
    /\ call.fn = "aggregateUp"
    /\ call.pc = "pending"
    /\ call' = [call EXCEPT !.pc = "done",
                  !.result = Some(aggregateToInterval(call.args.series,
                                      call.args.target, call.args.tz))]
    /\ UNCHANGED <<flowVars, fetchVars, uploadVars>>

-----------------------------------------------------------------------------
\* processSolarIrradianceData and splitIrradianceValue
\* (services/solarIrradianceService.ts)

\* Days in one processSolarIrradianceData call
MaxIrrDays == 2

\* a % b of JavaScript for b > 0: the sign of the result follows the dividend
JsRem(a, b) == IF a >= 0 THEN a % b ELSE -((-a) % b)

\* Sunrise and sunset in UTC minutes as calculateSunriseSunset returns them: a
\* summer day at longitude 151, the fixture of lat 38.9 and lon -77, a day at
\* longitude 0, and a polar night (hour angle 0: sunrise = sunset = solar noon)
SolarWindows ==
    { [sunrise |-> -304, sunset |-> 536],
      [sunrise |-> 629,  sunset |-> 1433],
      [sunrise |-> 352,  sunset |-> 1087],
      [sunrise |-> 700,  sunset |-> 700] }

IrrPeriods == {30, 60}

\* Offset of the browser's time zone from UTC, in minutes east
IrrTzOffsets == {0, 600, -300}

\* Daily irradiance values after the service's repair and scaling: positive
DailyValues == {16, 80}

roundToNearestPeriod(mins, periodInMinutes) ==
    LET remainder == JsRem(mins, periodInMinutes)
    IN IF remainder = 0 THEN [rounded |-> mins, direction |-> "up"]
       ELSE IF 2 * remainder < periodInMinutes
       THEN [rounded |-> mins - remainder, direction |-> "down"]
       ELSE [rounded |-> mins + (periodInMinutes - remainder), direction |-> "up"]

roundSunriseSunset(sunrise, sunset, periodInMinutes) ==
    LET sunriseRound == roundToNearestPeriod(sunrise, periodInMinutes)
        sunsetRound == roundToNearestPeriod(sunset, periodInMinutes).rounded
    IN [roundedSunrise |-> sunriseRound.rounded,
        roundedSunset |->
            IF sunriseRound.direction = "up"
            THEN IF sunsetRound < sunset THEN sunsetRound + periodInMinutes
                 ELSE sunsetRound
            ELSE IF sunsetRound > sunset THEN sunsetRound - periodInMinutes
                 ELSE sunsetRound]

\* getMidnightUtcMinutes: -1440 + the UTC hours and minutes of the local midnight
\* of the entry's date (a date-only string, so UTC midnight) in the browser's zone
getMidnightUtcMinutes(tz) == -1440 + ((1440 - tz) % 1440)

\* The weight of minute x of the daylight window.  The code uses the normal
\* density with mean at the middle of the window; the model uses a positive
\* integer weight that rises by one per hour towards the middle, so that
\* shares stay exact.
normalPDF(x, sunrise, sunset) == 1 + (Min(x - sunrise, sunset - 1 - x) \div 60)

\* Sum of the weights of the minutes from..to-1
RECURSIVE SumPdf(_, _, _, _)
SumPdf(from, to, sunrise, sunset) ==
    IF from >= to THEN 0
    ELSE IF to = from + 1 THEN normalPDF(from, sunrise, sunset)
    ELSE LET mid == from + ((to - from) \div 2)
         IN SumPdf(from, mid, sunrise, sunset) + SumPdf(mid, to, sunrise, sunset)

\* Mutant of blockPdfSum: the last minute of every block is left out
M_blockPdfSum_ShortBlock(i, sunrise, sunset, periodInMinutes) ==
    SumPdf(i, Min(i + periodInMinutes, sunset) - 1, sunrise, sunset)

\* blockPdfSum of the block that starts at minute i (lines 291-295)
blockPdfSum(i, sunrise, sunset, periodInMinutes) ==
    SumPdf(i, Min(i + periodInMinutes, sunset), sunrise, sunset)

\* Entries with a zero value at minutes from, from + step, ... below to, of the
\* day that starts at dayStart (entryDate.setUTCMinutes(i))
RECURSIVE zeroEntries(_, _, _, _)
zeroEntries(dayStart, from, to, step) ==
    IF from >= to THEN <<>>
    ELSE <<[date |-> dayStart + from, num |-> 0, den |-> 1]>>
         \o zeroEntries(dayStart, from + step, to, step)

\* The loop of lines 289-305 from minute i on.  A value is the fraction
\* num / den = blockPdfSum * entry.value / pdfSum.
RECURSIVE splitLoop(_, _, _, _, _, _)
splitLoop(entry, i, sunrise, sunset, periodInMinutes, pdfSum) ==
    IF i >= sunset THEN <<>>
    ELSE <<[date |-> entry.date + i,
            num |-> blockPdfSum(i, sunrise, sunset, periodInMinutes) * entry.value,
            den |-> pdfSum]>>
         \o splitLoop(entry, i + periodInMinutes, sunrise, sunset, periodInMinutes, pdfSum)

splitIrradianceValue(entry, sunrise, sunset, periodInMinutes) ==
    IF sunset - sunrise <= 0 THEN <<>>
    ELSE splitLoop(entry, sunrise, sunrise, sunset, periodInMinutes,
                   SumPdf(sunrise, sunset, sunrise, sunset))

\* The flatMap callback of processSolarIrradianceData for one daily entry
processEntry(entry, window, periodInMinutes, tz) ==
    LET r == roundSunriseSunset(window.sunrise, window.sunset, periodInMinutes)
        midnightUtcMinutes == getMidnightUtcMinutes(tz)
        preSunriseEntries == zeroEntries(entry.date, midnightUtcMinutes,
                                         r.roundedSunrise, periodInMinutes)
        values == splitIrradianceValue(entry, r.roundedSunrise, r.roundedSunset,
                                       periodInMinutes)
        postSunsetEntries == zeroEntries(entry.date, r.roundedSunset,
                                         1440 - r.roundedSunset, periodInMinutes)
    IN preSunriseEntries \o values \o postSunsetEntries

RECURSIVE flatten(_)
flatten(lists) == IF lists = <<>> THEN <<>> ELSE lists[1] \o flatten(Tail(lists))

\* processSolarIrradianceData: perDay holds what the callback returned for each
\* entry, flat is the array returned
processSolarIrradianceData(data, window, periodInMinutes, tz) ==
    LET perDay == [k \in 1..Len(data) |->
                      processEntry(data[k], window, periodInMinutes, tz)]
    IN [perDay |-> perDay, flat |-> flatten(perDay)]

\* Daily entries dated at UTC midnight of consecutive days
DistributeInit ==
    \E n \in 1..MaxIrrDays, w \in SolarWindows, p \in IrrPeriods, tz \in IrrTzOffsets :
      \E vs \in [1..n -> DailyValues] :
        call = [fn |-> "processSolarIrradianceData", pc |-> "pending",
                args |-> [data |-> MkSeries(1440, 1440, vs), window |-> w,
                          periodInMinutes |-> p, tz |-> tz],
                result |-> None]

ProcessSolarIrradianceData ==
    /\ call.fn = "processSolarIrradianceData"
    /\ call.pc = "pending"
    /\ call' = [call EXCEPT !.pc = "done",
                  !.result = Some(processSolarIrradianceData(call.args.data,
                                      call.args.window, call.args.periodInMinutes,
                                      call.args.tz))]
    /\ UNCHANGED <<flowVars, fetchVars, uploadVars>>

-----------------------------------------------------------------------------
\* fetchNasaPowerIrradianceData (services/nasaPowerApiService.ts) and
\* fetchOpenMeteoIrradianceData (services/openMeteoApiService.ts)

MULTIPLIER == 16

\* A number is a fraction num / den; NaN is 0 / 0
Num(n) == [num |-> n, den |-> 1]
NaN == [num |-> 0, den |-> 0]

isNaN(v) == v.den = 0

\* v > 0 (false for NaN)
isPositive(v) == v.den > 0 /\ v.num > 0

\* Daily values as the live sources deliver them: NaN, the fill value -999, 0,
\* and two readings
RawValues == {NaN, Num(-999), Num(0), Num(2), Num(4)}

\* The daily values of a response, as runs of equal values: <<[value, count], ...>>
Runs(a, n1, b, n2, c, total) ==
    LET rest == total - n1 - n2
    IN SelectSeq(<<[value |-> a, count |-> n1], [value |-> b, count |-> n2],
                   [value |-> c, count |-> rest]>>,
                 LAMBDA r : r.count > 0)

IrradianceBodies ==
    {<<>>} \cup
    { Runs(a, n1, b, n2, c, total) :
        a \in RawValues, b \in RawValues, c \in RawValues,
        n1 \in {0, 1, 2}, n2 \in {0, 1},
        total \in {DaysInYear - 1, DaysInYear, DaysInYear + 1} }

RECURSIVE CountOf(_)
CountOf(runs) == IF runs = <<>> THEN 0 ELSE runs[1].count + CountOf(Tail(runs))

\* Sum of the numerators of the values of the runs (all of denominator 1)
RECURSIVE SumOf(_)
SumOf(runs) ==
    IF runs = <<>> THEN 0 ELSE runs[1].value.num * runs[1].count + SumOf(Tail(runs))

\* Mutant of invalidValue: NaN passes the validation
M_invalidValue_IgnoresNaN(v) == v.den # 0 /\ v.num <= 0

\* entry.value <= 0 || isNaN(entry.value)
invalidValue(v) == (v.den # 0 /\ v.num <= 0) \/ isNaN(v)

\* The mean of the valid values, or the fallback 5.0 when none is valid
averageOf(runs) ==
    LET validValues == SelectSeq(runs, LAMBDA r : isPositive(r.value) /\ ~isNaN(r.value))
    IN IF CountOf(validValues) > 0
       THEN [num |-> SumOf(validValues), den |-> CountOf(validValues)]
       ELSE Num(5)

\* The repair both services apply to the 365 values
replaceInvalid(runs) ==
    IF \E k \in 1..Len(runs) : invalidValue(runs[k].value)
    THEN [k \in 1..Len(runs) |->
             IF invalidValue(runs[k].value)
             THEN [runs[k] EXCEPT !.value = averageOf(runs)]
             ELSE runs[k]]
    ELSE runs

\* value * MULTIPLIER (NaN stays NaN)
scaled(runs) ==
    [k \in 1..Len(runs) |-> [runs[k] EXCEPT !.value.num = @ * MULTIPLIER]]

fetchNasaPowerIrradianceData(response) ==
    IF response.status # "ok" THEN Thrown("NASA POWER API request failed")
    ELSE IF CountOf(response.body) = 0
    THEN Thrown("No irradiance data received from NASA POWER API")
    ELSE IF CountOf(response.body) # DaysInYear
    THEN Thrown("NASA POWER API did not return 365 daily values")
    ELSE Returned(replaceInvalid(scaled(response.body)))

fetchOpenMeteoIrradianceData(response) ==
    IF response.status # "ok" THEN Thrown("Open-Meteo API request failed")
    ELSE IF CountOf(response.body) # DaysInYear
    THEN Thrown("Open-Meteo API did not return 365 daily values")
    ELSE Returned(replaceInvalid(response.body))

FetchIrradianceInit ==
    \E s \in {"ok", "httpError"}, b \in IrradianceBodies :
        /\ s = "httpError" => b = <<>>
        /\ call = [fn |-> "fetchIrradianceData", pc |-> "pending",
                   args |-> [response |-> [status |-> s, body |-> b]],
                   result |-> None]

FetchNasaPowerIrradianceData ==
    /\ call.fn = "fetchIrradianceData"
    /\ call.pc = "pending"
    /\ call' = [call EXCEPT !.pc = "nasa",
                  !.result = Some(fetchNasaPowerIrradianceData(call.args.response))]
    /\ UNCHANGED <<flowVars, fetchVars, uploadVars>>

FetchOpenMeteoIrradianceData ==
    /\ call.fn = "fetchIrradianceData"
    /\ call.pc = "pending"
    /\ call' = [call EXCEPT !.pc = "openMeteo",
                  !.result = Some(fetchOpenMeteoIrradianceData(call.args.response))]
    /\ UNCHANGED <<flowVars, fetchVars, uploadVars>>

-----------------------------------------------------------------------------
\* padMissingDates and calculateRatio (parsers/csvProcessor.ts)

\* Periods between the first and the last possible reading of a padded series
MaxSlots == 4

PadPeriods == {30, 60}

\* What a period holds on entry: no reading, one reading, or two readings of
\* the same timestamp (a general and a controlled-load row of a Jemena file
\* that aggregateToInterval returned unmerged, or a 29 February moved onto
\* 1 March by filterLastYearOfData)
SlotReadings == {<<>>, <<1>>, <<3>>, <<1, 3>>}

\* Wall-clock minute of the first period
PadStart == 1440

\* The series of readings of the periods from slot k on, sorted by date
RECURSIVE readingsFrom(_, _, _)
readingsFrom(slots, k, periodInMinutes) ==
    IF k > Len(slots) THEN <<>>
    ELSE [j \in 1..Len(slots[k]) |->
             [date |-> PadStart + (k - 1) * periodInMinutes,
              value |-> Num(slots[k][j])]]
         \o readingsFrom(slots, k + 1, periodInMinutes)

\* Object.entries(avgMap) of the average profile: none, or an average of 2 for
\* every half hour of the first day with a second year's 4 for the first slot
AvgMaps ==
    { <<>>,
      [j \in 1..10 |-> IF j <= 9 THEN [iso |-> PadStart + (j - 1) * 30, val |-> 2]
                       ELSE [iso |-> PadStart + DaysInYear * 1440, val |-> 4]] }

\* iso.slice(5, 16): month, day, hour and minute of a date string
monthDayTime(date) == date % (DaysInYear * 1440)

\* format(date, "yyyy-MM-dd'T'HH:mm"): the local wall clock of an instant
format(ms, tz) == ms + tz

\* avgLookup[key]: the value of the first entry of avgMap with that key, or None
RECURSIVE avgLookup(_, _)
avgLookup(avgMap, key) ==
    IF avgMap = <<>> THEN None
    ELSE IF monthDayTime(avgMap[1].iso) = key THEN Some(avgMap[1].val)
    ELSE avgLookup(Tail(avgMap), key)

RECURSIVE sumData(_)
sumData(data) == IF data = <<>> THEN 0 ELSE data[1].value.num + sumData(Tail(data))

RECURSIVE sumAvg(_, _)
sumAvg(data, avgMap) ==
    IF data = <<>> THEN 0
    ELSE LET a == avgLookup(avgMap, monthDayTime(data[1].date))
         IN (IF a = None THEN 0 ELSE a[1]) + sumAvg(Tail(data), avgMap)

\* calculateRatio: sumData / sumAvg, or 1 when sumAvg is 0
calculateRatio(data, avgMap) ==
    IF sumAvg(data, avgMap) # 0
    THEN [num |-> sumData(data), den |-> sumAvg(data, avgMap)]
    ELSE Num(1)

\* data.find(entry => entry.date === dateKey)
RECURSIVE findEntry(_, _)
findEntry(data, dateKey) ==
    IF data = <<>> THEN None
    ELSE IF data[1].date = dateKey THEN Some(data[1])
    ELSE findEntry(Tail(data), dateKey)

\* The while loop of padMissingDates from currentDate on
RECURSIVE padLoop(_, _, _, _, _, _, _)
padLoop(data, currentDate, endDate, periodInMinutes, avgMap, ratio, tz) ==
    IF currentDate > endDate THEN <<>>
    ELSE LET dateKey == format(currentDate, tz)
             existingEntry == findEntry(data, dateKey)
             avg == avgLookup(avgMap, monthDayTime(dateKey))
             value == IF existingEntry # None THEN existingEntry[1].value
                      ELSE IF avg # None
                      THEN [num |-> avg[1] * ratio.num, den |-> ratio.den]
                      ELSE Num(0)
         IN <<[date |-> dateKey, value |-> value]>>
            \o padLoop(data, currentDate + periodInMinutes, endDate,
                       periodInMinutes, avgMap, ratio, tz)

padMissingDates(data, periodInMinutes, avgMap, tz) ==
    IF Len(data) = 0 THEN <<>>
    ELSE LET startDate == getMs(data[1].date, tz)
             endDate == getMs(data[Len(data)].date, tz)
             expectedCount == ((endDate - startDate) \div periodInMinutes) + 1
         IN IF Len(data) = expectedCount THEN data
            ELSE padLoop(data, startDate, endDate, periodInMinutes, avgMap,
                         calculateRatio(data, avgMap), tz)

PadInit ==
    \E slots \in [1..MaxSlots -> SlotReadings], p \in PadPeriods,
       avgMap \in AvgMaps, tz \in TzOffsets :
        call = [fn |-> "padMissingDates", pc |-> "pending",
                args |-> [data |-> readingsFrom(slots, 1, p), periodInMinutes |-> p,
                          avgMap |-> avgMap, tz |-> tz],
                result |-> None]

PadMissingDates ==
    /\ call.fn = "padMissingDates"
    /\ call.pc = "pending"
    /\ call' = [call EXCEPT !.pc = "done",
                  !.result = Some(padMissingDates(call.args.data,
                                      call.args.periodInMinutes, call.args.avgMap,
                                      call.args.tz))]
    /\ UNCHANGED <<flowVars, fetchVars, uploadVars>>

-----------------------------------------------------------------------------
\* The App effect that runs the simulation again (App.tsx), and
\* calculateSolarGeneration (utils/solarCalculations.ts)

\* Calls of calculateConsumptionData in one session
MaxRuns == 3

InstallationSizes == {1, 2}

\* Irradiance per period, in Wh/m2
IrradianceValues == {0, 2}

\* Consumption per period, in hundredths of a kWh
ConsumptionValues == {1, 3}

\* calculateSolarGeneration in hundredths of a kWh:
\* Math.round(ghiKWh * panelAreaM2 * panelEfficiency * (1 - systemLosses) * 100)
\* with wattsToKilowatts 1000, panelPowerDensityWPerM2 150, panelEfficiency 3
\* and systemLosses 0.15
calculateSolarGeneration(installationSize, irradiance) ==
    MathRound(irradiance * installationSize * 1000 * 3 * 85 * 100,
              1000 * 150 * 100)

\* generationSolar as the effect maps it from rawSolarIrradiance.values
generationOf(installationSize, values) ==
    [k \in 1..Len(values) |->
        [date |-> values[k].date,
         value |-> calculateSolarGeneration(installationSize, values[k].value)]]

\* The systemDetails the effect builds, with the cost fields App starts with
SystemDetailsOf(installationSize, batteryCapacity, values) ==
    [installationSize |-> installationSize, batteryCapacity |-> batteryCapacity,
     rawSolarIrradiance |-> values, peakCost |-> None, offPeakCost |-> None,
     feedInTariff |-> None, exportLimit |-> Some(ExportLimitDefault)]

\* App with irradiance and an uploaded consumption series, its effect about to
\* call calculateConsumptionData for the first time
RerunInit ==
    /\ flowPc = "idle"
    /\ \E size \in InstallationSizes, cap \in BatteryCapacities,
          iv \in [1..MaxPeriods -> IrradianceValues],
          cv \in [1..MaxPeriods -> ConsumptionValues] :
         /\ systemDetails = SystemDetailsOf(size, cap, MkSeries(780, 30, iv))
         /\ energyCalculations =
              BaseCalculations(30, MkSeries(780, 30, cv),
                               generationOf(size, MkSeries(780, 30, iv)))
    /\ batteryLevel = 0
    /\ flowI = 0
    /\ chargedLog = <<>>
    /\ aggResult = [kind |-> "none"]
    /\ runLog = <<>>

\* The effect fires again because installationSize or batteryCapacity changed:
\* it builds a new base from rawSolarIrradiance and the consumption series of
\* the previous result, and calls calculateConsumptionData
Rerun ==
    /\ flowPc = "done"
    /\ Len(runLog) < MaxRuns
    /\ \E size \in InstallationSizes, cap \in BatteryCapacities :
         /\ <<size, cap>> # <<systemDetails.installationSize,
                              systemDetails.batteryCapacity>>
         /\ systemDetails' = SystemDetailsOf(size, cap, systemDetails.rawSolarIrradiance)
         /\ energyCalculations' =
              BaseCalculations(energyCalculations.periodInMinutes,
                               energyCalculations.totalConsumption,
                               generationOf(size, systemDetails.rawSolarIrradiance))
    /\ flowPc' = "idle"
    /\ UNCHANGED <<batteryLevel, flowI, chargedLog, aggResult, runLog>>
    /\ UNCHANGED <<fetchVars, uploadVars, call>>

RerunNext == CalcStart \/ CalcStep \/ CalcReturn \/ Rerun

RerunSpecInit == RerunInit /\ FetchQuiet /\ UploadQuiet /\ LibQuiet

SpecRerun == RerunSpecInit /\ [][RerunNext]_vars

-----------------------------------------------------------------------------
\* Step 6 of calculateConsumptionData, the cost of one period, on its own

\* Wall-clock minutes of periods at 13:30, 14:00, 19:30 and 20:00
CostDates == {810, 840, 1170, 1200}

\* A rate field of CostInputs: blank, 0 or a positive rate
RateChoices == {None, Some(0), Some(2), Some(3)}

\* Lines 91-107 for one period: the two values pushed
periodCost(date, usedGrid, exported, consumption, sd) ==
    [cost |-> costOf(usedGrid, exported, rateOf(date, sd), sd),
     nonSolarCost |-> consumption * rateOf(date, sd)]

PeriodCostInit ==
    \E date \in CostDates, peak \in {None, Some(3)}, offPeak \in RateChoices,
       fit \in {None, Some(0), Some(1)}, usedGrid \in {0, 2}, exported \in {0, 1} :
        call = [fn |-> "periodCost", pc |-> "pending",
                args |-> [date |-> date, usedGrid |-> usedGrid, exported |-> exported,
                          consumption |-> usedGrid + 1,
                          systemDetails |-> [peakCost |-> peak, offPeakCost |-> offPeak,
                                             feedInTariff |-> fit]],
                result |-> None]

PeriodCost ==
    /\ call.fn = "periodCost"
    /\ call.pc = "pending"
    /\ call' = [call EXCEPT !.pc = "done",
                  !.result = Some(periodCost(call.args.date, call.args.usedGrid,
                                      call.args.exported, call.args.consumption,
                                      call.args.systemDetails))]
    /\ UNCHANGED <<flowVars, fetchVars, uploadVars>>

-----------------------------------------------------------------------------
\* filterLastYearOfData (parsers/csvProcessor.ts).  A date string is the number
\* of minutes of its wall-clock reading since 1 January of EpochYear, 00:00.

EpochYear == 2023

\* Readings in one filterLastYearOfData call
MaxReadings == 3

isLeapYear(y) == y % 4 = 0 /\ (y % 100 # 0 \/ y % 400 = 0)

\* Minutes from the epoch to 1 January of year y, 00:00
RECURSIVE yearStart(_)
yearStart(y) ==
    IF y <= EpochYear THEN 0
    ELSE yearStart(y - 1) + (IF isLeapYear(y - 1) THEN 366 ELSE 365) * 1440

\* Date.getFullYear
getFullYear(date) ==
    CHOOSE y \in EpochYear..(EpochYear + 4) :
        yearStart(y) <= date /\ date < yearStart(y + 1)

\* Date.setFullYear(year): month, day of the month and time are kept, and a
\* 29 February overflows to 1 March in a year that has none.  Day 59 of a
\* year (counted from 0) is 29 February in a leap year and 1 March otherwise.
setFullYear(date, year) ==
    LET y == getFullYear(date)
        day == (date - yearStart(y)) \div 1440
        minute == (date - yearStart(y)) % 1440
        newDay == IF isLeapYear(y) /\ ~isLeapYear(year) /\ day > 59 THEN day - 1
                  ELSE IF ~isLeapYear(y) /\ isLeapYear(year) /\ day >= 59 THEN day + 1
                  ELSE day
    IN yearStart(year) + newDay * 1440 + minute

\* The reduce of lines 244-247: the latest instant of data (data is not empty)
maxDateOf(data, tz) ==
    CHOOSE m \in {getMs(data[k].date, tz) : k \in 1..Len(data)} :
        \A k \in 1..Len(data) : getMs(data[k].date, tz) <= m

\* The map callback of lines 259-268
rearrange(entry, currentYear) ==
    IF getFullYear(entry.date) = currentYear THEN entry
    ELSE [entry EXCEPT !.date = setFullYear(entry.date, currentYear)]

filterLastYearOfData(data, currentYear, tz) ==
    IF Len(data) = 0 THEN <<>>
    ELSE LET maxDate == maxDateOf(data, tz)
             cutoff == maxDate - DaysInYear * 1440
             filtered == SelectSeq(data, LAMBDA row :
                             getMs(row.date, tz) > cutoff /\ getMs(row.date, tz) <= maxDate)
             rearranged == [k \in 1..Len(filtered) |-> rearrange(filtered[k], currentYear)]
         IN sortByDate(rearranged, tz)

\* Dates of readings, at 12:00: 28 and 29 February, 1 March and 31 December
\* 2024, 1 January, 28 February and 1 March 2025
ReadingDates ==
    {yearStart(2024) + d * 1440 + 720 : d \in {58, 59, 60, 365}}
    \cup {yearStart(2025) + d * 1440 + 720 : d \in {0, 58, 59}}

\* Readings in file order, each with its position as value
FilterInit ==
    \E n \in 1..MaxReadings, currentYear \in {2025, 2026}, tz \in TzOffsets :
      \E ds \in [1..n -> ReadingDates] :
        /\ \A i, j \in 1..n : i # j => ds[i] # ds[j]
        /\ call = [fn |-> "filterLastYearOfData", pc |-> "pending",
                   args |-> [data |-> [k \in 1..n |-> [date |-> ds[k], value |-> k]],
                             currentYear |-> currentYear, tz |-> tz],
                   result |-> None]

FilterLastYearOfData ==
    /\ call.fn = "filterLastYearOfData"
    /\ call.pc = "pending"
    /\ call' = [call EXCEPT !.pc = "done",
                  !.result = Some(filterLastYearOfData(call.args.data,
                                      call.args.currentYear, call.args.tz))]
    /\ UNCHANGED <<flowVars, fetchVars, uploadVars>>

-----------------------------------------------------------------------------
\* roundSunriseSunset on its own

\* Sunrises and sunsets in UTC minutes: before and after UTC midnight, on a
\* period boundary, and at different distances below and above one
Sunrises == {-304, -300, 352, 600, 614, 629}

Sunsets == {536, 1087, 1425, 1433, 1439}

RoundInit ==
    \E sunrise \in Sunrises, sunset \in Sunsets, p \in IrrPeriods :
        call = [fn |-> "roundSunriseSunset", pc |-> "pending",
                args |-> [sunrise |-> sunrise, sunset |-> sunset,
                          periodInMinutes |-> p],
                result |-> None]

RoundSunriseSunset ==
    /\ call.fn = "roundSunriseSunset"
    /\ call.pc = "pending"
    /\ call' = [call EXCEPT !.pc = "done",
                  !.result = Some(roundSunriseSunset(call.args.sunrise,
                                      call.args.sunset, call.args.periodInMinutes))]
    /\ UNCHANGED <<flowVars, fetchVars, uploadVars>>

-----------------------------------------------------------------------------
\* FileUpload.onDrop (components/FileUpload.tsx) with App's upload handlers
\* (onUploadStart, handleDataLoaded, handleUploadError)

MaxUploads == 2

\* A dropped file: its MIME type, the first cell of its first row (what
\* Papa.parse gives with header: false), its header names (the keys of a row
\* with header: true), and whether the parser's asynchronous parse succeeds on
\* it (false: the promise rejects, as when parse throws)
UploadFiles ==
    {[type |-> "text/plain", cell |-> "NMI", keys |-> {"NMI", "CON/GEN"}, parses |-> TRUE]}
    \cup {[type |-> "text/csv", cell |-> "100", keys |-> {}, parses |-> b] : b \in BOOLEAN}
    \cup {[type |-> "text/csv", cell |-> "200", keys |-> {}, parses |-> TRUE]}
    \cup {[type |-> "text/csv", cell |-> "NMI", keys |-> {"NMI", "CON/GEN"}, parses |-> b] :
             b \in BOOLEAN}
    \cup {[type |-> "text/csv", cell |-> "NMI", keys |-> {"NMI"}, parses |-> TRUE]}

\* acceptedFiles: empty when react-dropzone rejected every dropped file
AcceptedFiles == {<<>>} \cup {<<f>> : f \in UploadFiles}

\* previewResults.data (header: false) and results.data (header: true)
previewData(file) == [length |-> 1, first |-> "array", keys |-> {}, cell |-> file.cell]
headerData(file) == [length |-> 1, first |-> "object", keys |-> file.keys, cell |-> ""]

\* onUploadStart={() => setIsLoadingUpload(true)}, then the callback of the
\* attempt, if it calls one: handleDataLoaded and handleUploadError both end
\* with isLoadingUpload false
handleUploadError(i, error) ==
    /\ uploads' = [uploads EXCEPT ![i].pc = "settled", ![i].errors = @ + 1]
    /\ isLoadingUpload' = FALSE
    /\ uploadError' = Some(error)

handleDataLoaded(i) ==
    /\ uploads' = [uploads EXCEPT ![i].pc = "settled", ![i].loaded = @ + 1]
    /\ isLoadingUpload' = FALSE
    /\ uploadError' = None

\* getEnergyCsvParser(data).parse(data).then(...) inside try / catch: a throw
\* of getEnergyCsvParser is caught, the promise of parse is left pending
startParse(i, data) ==
    IF getEnergyCsvParser(data).kind = "thrown"
    THEN handleUploadError(i, "Error processing file")
    ELSE /\ uploads' = [uploads EXCEPT ![i].pc = "parse"]
         /\ UNCHANGED <<isLoadingUpload, uploadError>>

UploadInit ==
    /\ uploads = <<>>
    /\ isLoadingUpload = FALSE
    /\ uploadError = None

onDrop ==
    /\ Len(uploads) < MaxUploads
    /\ \E acceptedFiles \in AcceptedFiles :
        LET attempt(pc, errors) ==
                [files |-> acceptedFiles, pc |-> pc, loaded |-> 0, errors |-> errors]
        IN IF Len(acceptedFiles) > 0
           THEN IF acceptedFiles[1].type # "text/csv"
                THEN /\ uploads' = Append(uploads, attempt("settled", 1))
                     /\ isLoadingUpload' = FALSE
                     /\ uploadError' = Some("Please upload a valid CSV file.")
                ELSE /\ uploads' = Append(uploads, attempt("preview", 0))
                     /\ isLoadingUpload' = TRUE
                     /\ UNCHANGED uploadError
           ELSE /\ uploads' = Append(uploads, attempt("settled", 0))
                /\ isLoadingUpload' = TRUE
                /\ UNCHANGED uploadError
    /\ UNCHANGED <<flowVars, fetchVars, call>>

\* complete of the first Papa.parse
PreviewComplete ==
    /\ \E i \in DOMAIN uploads :
        /\ uploads[i].pc = "preview"
        /\ LET file == uploads[i].files[1]
           IN IF file.cell \in {"100", "200", "300"}
              THEN startParse(i, previewData(file))
              ELSE /\ uploads' = [uploads EXCEPT ![i].pc = "reparse"]
                   /\ UNCHANGED <<isLoadingUpload, uploadError>>
    /\ UNCHANGED <<flowVars, fetchVars, call>>

\* error of the first Papa.parse
PreviewError ==
    /\ \E i \in DOMAIN uploads :
        /\ uploads[i].pc = "preview"
        /\ handleUploadError(i, "Error parsing CSV")
    /\ UNCHANGED <<flowVars, fetchVars, call>>

\* complete of the second Papa.parse (header: true)
ReparseComplete ==
    /\ \E i \in DOMAIN uploads :
        /\ uploads[i].pc = "reparse"
        /\ startParse(i, headerData(uploads[i].files[1]))
    /\ UNCHANGED <<flowVars, fetchVars, call>>

\* error of the second Papa.parse
ReparseError ==
    /\ \E i \in DOMAIN uploads :
        /\ uploads[i].pc = "reparse"
        /\ handleUploadError(i, "Error parsing CSV")
    /\ UNCHANGED <<flowVars, fetchVars, call>>

\* The promise of parse is fulfilled: .then calls onDataLoaded
ParseFulfilled ==
    /\ \E i \in DOMAIN uploads :
        /\ uploads[i].pc = "parse"
        /\ uploads[i].files[1].parses
        /\ handleDataLoaded(i)
    /\ UNCHANGED <<flowVars, fetchVars, call>>

\* The promise of parse is rejected: .then has no rejection handler and the
\* promise .then returns has no catch
ParseRejected ==
    /\ \E i \in DOMAIN uploads :
        /\ uploads[i].pc = "parse"
        /\ ~uploads[i].files[1].parses
        /\ uploads' = [uploads EXCEPT ![i].pc = "settled"]
        /\ UNCHANGED <<isLoadingUpload, uploadError>>
    /\ UNCHANGED <<flowVars, fetchVars, call>>

UploadNext ==
    \/ onDrop
    \/ PreviewComplete
    \/ PreviewError
    \/ ReparseComplete
    \/ ReparseError
    \/ ParseFulfilled
    \/ ParseRejected

UploadSpecInit == UploadInit /\ FlowQuiet /\ FetchQuiet /\ LibQuiet

SpecUpload == UploadSpecInit /\ [][UploadNext]_vars

-----------------------------------------------------------------------------
\* NEM12CsvParser.parse (parsers/NEM12CsvParser.ts)

\* Most values in a 300 record
MaxIntervals == 4

\* The loop over the rows from index i on: a 200 record sets the interval
\* length (parseInt(row[5], 10) || 30), a 300 record gives one reading for each
\* of the first intervalsPerDay cells that holds a number
RECURSIVE parseRows(_, _, _, _)
parseRows(data, i, currentIntervalLength, rawValues) ==
    IF i > Len(data) THEN [currentIntervalLength |-> currentIntervalLength,
                           rawValues |-> rawValues]
    ELSE LET row == data[i]
         IN IF row.recordType = "200"
            THEN parseRows(data, i + 1,
                           IF row.intervalLength # 0 THEN row.intervalLength ELSE 30,
                           rawValues)
            ELSE IF row.recordType = "300"
            THEN LET intervalsPerDay == 1440 \div currentIntervalLength
                     n == Min(intervalsPerDay, Len(row.values))
                     readings == [j \in 1..n |->
                                     [date |-> row.currentDate + (j - 1) * currentIntervalLength,
                                      value |-> row.values[j]]]
                 IN parseRows(data, i + 1, currentIntervalLength, rawValues \o readings)
            ELSE parseRows(data, i + 1, currentIntervalLength, rawValues)

NEM12CsvParser_parse(data, periodInMinutes, currentYear, tz) ==
    LET loop == parseRows(data, 1, periodInMinutes, <<>>)
        sorted == sortByDate(loop.rawValues, tz)
        processedData == aggregateToInterval(sorted, periodInMinutes, tz)
    IN [periodInMinutes |-> loop.currentIntervalLength,
        values |-> filterLastYearOfData(processedData, currentYear, tz)]

\* A file with a 100 record, a 200 record or none, and a 300 record of
\* 10 January 2025 with its first n values, parsed in 2025 for the default
\* period of 30 minutes
NEM12ParseInit ==
    \E withMeter \in BOOLEAN, intervalLength \in {0, 15, 30, 60}, n \in 1..MaxIntervals,
       tz \in TzOffsets :
      \E vs \in [1..n -> {1, 2}] :
        LET header == <<[recordType |-> "100"]>>
            meter == IF withMeter
                     THEN <<[recordType |-> "200", intervalLength |-> intervalLength]>>
                     ELSE <<>>
            day == <<[recordType |-> "300", currentDate |-> yearStart(2025) + 9 * 1440,
                      values |-> vs]>>
        IN /\ withMeter \/ intervalLength = 0
           /\ call = [fn |-> "NEM12CsvParser.parse", pc |-> "pending",
                      args |-> [data |-> header \o meter \o day, periodInMinutes |-> 30,
                                currentYear |-> 2025, tz |-> tz],
                      result |-> None]

NEM12Parse ==
    /\ call.fn = "NEM12CsvParser.parse"
    /\ call.pc = "pending"
    /\ call' = [call EXCEPT !.pc = "done",
                  !.result = Some(NEM12CsvParser_parse(call.args.data,
                                      call.args.periodInMinutes, call.args.currentYear,
                                      call.args.tz))]
    /\ UNCHANGED <<flowVars, fetchVars, uploadVars>>

-----------------------------------------------------------------------------
\* The services and parsers called as functions

LibInit ==
    \/ IrradianceInit
    \/ ParserInit
    \/ ResampleInit
    \/ AggregateInit
    \/ DistributeInit
    \/ FetchIrradianceInit
    \/ PadInit
    \/ PeriodCostInit
    \/ FilterInit
    \/ RoundInit
    \/ NEM12ParseInit

LibNext ==
    \/ GetApiSolarIrradiance
    \/ GetApiSolarIrradianceFallback
    \/ GetEnergyCsvParser
    \/ SplitToFiner
    \/ AggregateBack
    \/ AggregateToCoarser
    \/ ProcessSolarIrradianceData
    \/ FetchNasaPowerIrradianceData
    \/ FetchOpenMeteoIrradianceData
    \/ PadMissingDates
    \/ PeriodCost
    \/ FilterLastYearOfData
    \/ RoundSunriseSunset
    \/ NEM12Parse

LibSpecInit == LibInit /\ FlowQuiet /\ FetchQuiet /\ UploadQuiet

SpecLib == LibSpecInit /\ [][LibNext]_vars

-----------------------------------------------------------------------------
\* Properties of the energy flow simulation

Simulated == flowPc # "idle"

\* Number of periods processed so far
Processed == IF Simulated THEN Len(energyCalculations.consumptionSolar) ELSE 0

\* unusedSolar[k]: calculateConsumptionData never assigns the field; an absent
\* series contributes nothing
unusedSolarAt(k) ==
    IF "unusedSolar" \in DOMAIN energyCalculations
    THEN energyCalculations.unusedSolar[k].value ELSE 0

\* Periods of the run that have a generation entry
WithGeneration == {k \in 1..Processed : k <= Len(energyCalculations.generationSolar)}

\* C1: for every processed period i, consumptionSolar[i] + consumptionBattery[i] +
\* consumptionGrid[i] equals totalConsumption[i].
Thm_C1_ConsumptionConserved ==
    \A k \in 1..Processed :
        energyCalculations.consumptionSolar[k].value
          + energyCalculations.consumptionBattery[k].value
          + energyCalculations.consumptionGrid[k].value
        = energyCalculations.totalConsumption[k].value

\* C1 witness: a finished run with a period served by solar, battery and grid at once
Wit_C1_AllThreeSources ==
    /\ flowPc = "done"
    /\ \E k \in 1..Processed :
          /\ energyCalculations.consumptionSolar[k].value > 0
          /\ energyCalculations.consumptionBattery[k].value > 0
          /\ energyCalculations.consumptionGrid[k].value > 0

\* C2 as stated: for every period with generation, and every battery capacity,
\* exportedSolar[i] + unusedSolar[i] + consumptionSolar[i] equals generationSolar[i].
CE_C2_SolarSplitWithoutCharge ==
    \A k \in WithGeneration :
        energyCalculations.exportedSolar[k].value + unusedSolarAt(k)
          + energyCalculations.consumptionSolar[k].value
        = energyCalculations.generationSolar[k].value

\* C2 amended: for every period with generation, exportedSolar[i] + unusedSolar[i] +
\* consumptionSolar[i] plus the energy charged into the battery in period i equals
\* generationSolar[i].
Thm_C2_SolarSplitWithCharge ==
    \A k \in WithGeneration :
        energyCalculations.exportedSolar[k].value + unusedSolarAt(k)
          + energyCalculations.consumptionSolar[k].value + chargedLog[k]
        = energyCalculations.generationSolar[k].value

\* C2 witness: a period whose generation is split three ways: used, charged, exported
Wit_C2_ChargedAndExported ==
    \E k \in WithGeneration :
        /\ chargedLog[k] > 0
        /\ energyCalculations.exportedSolar[k].value > 0
        /\ energyCalculations.consumptionSolar[k].value > 0

\* C3: after every step 0 <= batteryLevel <= batteryCapacity.
Thm_C3_BatteryBounds ==
    /\ 0 <= batteryLevel
    /\ batteryLevel <= systemDetails.batteryCapacity

\* C3 witness: a step that filled the battery and had solar left over, after which
\* the battery is exactly full
Wit_C3_BatteryFilled ==
    /\ Processed > 0
    /\ systemDetails.batteryCapacity > 0
    /\ batteryLevel = systemDetails.batteryCapacity
    /\ chargedLog[Processed] > 0
    /\ energyCalculations.exportedSolar[Processed].value > 0

\* Local calendar days seen in the processed periods
ProcessedDays == {getDay(energyCalculations.exportedSolar[k].date) : k \in 1..Processed}

RECURSIVE SumDay(_, _)
SumDay(s, d) ==
    IF s = <<>> THEN 0
    ELSE (IF getDay(s[1].date) = d THEN s[1].value ELSE 0) + SumDay(Tail(s), d)

\* C4: with a daily export limit configured, the energy exported during any one
\* local calendar day never exceeds the limit.
CE_C4_DailyExportWithinLimit ==
    (Simulated /\ systemDetails.exportLimit # None) =>
        \A d \in ProcessedDays :
            SumDay(energyCalculations.exportedSolar, d) <= systemDetails.exportLimit[1]

-----------------------------------------------------------------------------
\* Properties of the period aggregator

Aggregated == aggResult.kind # "none"

\* C9: aggregateEnergyCalculationsToPeriod fails when the requested period is finer
\* than periodInMinutes, and returns every component series unchanged when the
\* requested period equals it.
Thm_C9_FinerFailsEqualNoOp ==
    Aggregated =>
        LET target == periodMap(aggResult.timePeriod)
            native == energyCalculations.periodInMinutes
        IN /\ target < native => aggResult.kind = "error"
           /\ target = native =>
                 /\ aggResult.kind = "ok"
                 /\ \A f \in SeriesFields \cap DOMAIN energyCalculations :
                        aggResult.value[f] = energyCalculations[f]

\* C9 witness: hourly data with entries, requested per minute, was refused
Wit_C9_FinerRefused ==
    /\ Aggregated
    /\ aggResult.kind = "error"
    /\ aggResult.timePeriod = "minute"
    /\ Len(energyCalculations.totalConsumption) > 0

\* The equal-period case also occurs: hourly data requested per hour
Wit_C9_EqualNoOp ==
    /\ Aggregated
    /\ aggResult.kind = "ok"
    /\ periodMap(aggResult.timePeriod) = energyCalculations.periodInMinutes
    /\ Len(energyCalculations.totalConsumption) > 0

-----------------------------------------------------------------------------
\* Properties of the debounced irradiance fetch

\* C5: once two overlapping fetches, started for location A and then for B, have
\* both completed, the stored rawSolarIrradiance is the data for B, never for A.
CE_C5_StaleResultDiscarded ==
    (fetches = {} /\ Len(fetchLog) >= 2) =>
        LET a == fetchLog[Len(fetchLog) - 1]
            b == fetchLog[Len(fetchLog)]
        IN (a.coords # b.coords /\ a.outcome = "resolved" /\ b.outcome = "resolved")
              => rawSolarIrradiance = Some(b.coords)

\* Requests that started a fetch
FetchedRequests == {fetchLog[k].req : k \in 1..Len(fetchLog)}

\* C6: when coordinate changes arrive less than the debounce delay apart, every
\* earlier pending request is cancelled and only the most recent one starts a
\* fetch: at most one callback is pending, it belongs to the latest change, and no
\* request that started a fetch was followed by another within the delay.
Thm_C6_DebounceLatestWins ==
    /\ Cardinality(timers) <= 1
    /\ \A t \in timers : t.id = Len(requests)
    /\ \A r \in FetchedRequests :
          \A j \in (r + 1)..Len(requests) :
              requests[j].at >= requests[r].at + DebounceMs

\* C6 witness: two valid changes less than 750 ms apart; the first started no
\* fetch and the second did
Wit_C6_SecondOfTwoFetched ==
    \E r \in FetchedRequests :
        /\ r >= 2
        /\ requests[r - 1].valid
        /\ requests[r - 1].coords # requests[r].coords
        /\ requests[r].at > requests[r - 1].at
        /\ requests[r].at - requests[r - 1].at < DebounceMs
        /\ (r - 1) \notin FetchedRequests

-----------------------------------------------------------------------------
\* Properties of getApiSolarIrradiance

IrradianceDone ==
    call.fn = "getApiSolarIrradiance" /\ call.pc \in {"current", "earlier"}

\* C7: whatever the live source does with a request for given coordinates, a
\* completed getApiSolarIrradiance call has returned a generation curve (from
\* the live source, the local reference dataset or the sinusoid) and has not
\* raised an error.
CE_C7_AlwaysReturnsCurve ==
    (IrradianceDone /\ call.args.latitude # None /\ call.args.longitude # None) =>
        /\ call.result[1].kind = "returned"
        /\ call.result[1].value.source \in {"api", "local", "sinusoid"}

-----------------------------------------------------------------------------
\* Properties of getEnergyCsvParser

ParserDone == call.fn = "getEnergyCsvParser" /\ call.pc = "done"

RegistryOrder == <<"OriginCsvParser", "NEM12CsvParser", "JemenaCsvParser",
                   "PowerpalCsvParser">>

\* Positions, in the registry order, of the parsers whose isValid accepts the data
Accepting(data) == {i \in 1..Len(RegistryOrder) : isValid(RegistryOrder[i], data)}

\* C8: getEnergyCsvParser returns the first parser, in the order Origin, NEM12,
\* Jemena, Powerpal, whose isValid accepts the data, and raises the 'no
\* suitable parser' error exactly when no parser's isValid accepts the data.
Thm_C8_FirstValidParser ==
    ParserDone =>
        LET ok == Accepting(call.args.data)
            r == call.result[1]
        IN /\ (ok = {}) <=> (r.kind = "thrown")
           /\ r.kind = "thrown" =>
                 r.value = "No suitable CSV parser found for the provided data format."
           /\ ok # {} =>
                 /\ r.kind = "returned"
                 /\ \E i \in ok : r.value = RegistryOrder[i] /\ \A j \in ok : i <= j

\* C8 witness: data that two parsers accept, of which the selector returned the
\* one earlier in the order
Wit_C8_EarlierOfTwoChosen ==
    /\ ParserDone
    /\ ~OriginCsvParser_isValid(call.args.data)
    /\ JemenaCsvParser_isValid(call.args.data)
    /\ PowerpalCsvParser_isValid(call.args.data)
    /\ call.result[1] = Returned("JemenaCsvParser")

\* C8 witness: data that no parser accepts, and the selector raised
Wit_C8_NoneAccepts ==
    /\ ParserDone
    /\ call.args.data.length > 0
    /\ Accepting(call.args.data) = {}
    /\ call.result[1].kind = "thrown"

-----------------------------------------------------------------------------
\* Properties of aggregateToInterval

ResampleDone == call.fn = "aggregateToInterval" /\ call.pc = "done"

\* C10: for a gap-free series of spacing P and a finer period F that divides P,
\* splitting to F and aggregating the result back to P returns the original
\* series: the same timestamps with the same values.
CE_C10_RoundTripIdentity ==
    ResampleDone => call.result[1] = call.args.series

-----------------------------------------------------------------------------
\* Properties of aggregateToInterval, aggregating

AggregateDone == call.fn = "aggregateUp" /\ call.pc = "done"

\* The start of the target-aligned block that holds the instant of a date string
BlockOf(date, target, tz) == getMs(date, tz) - (getMs(date, tz) % target)

\* Positions of the source entries whose instant falls in the block starting at b
InBlock(series, b, target, tz) ==
    {k \in 1..Len(series) : BlockOf(series[k].date, target, tz) = b}

RECURSIVE SumAt(_, _)
SumAt(series, S) ==
    IF S = {} THEN 0
    ELSE LET k == CHOOSE x \in S : TRUE
         IN series[k].value + SumAt(series, S \ {k})

\* C11: when the spacing of the series is finer than the target period, every
\* output value of aggregateToInterval is the sum of the source values whose
\* timestamps fall in that output's target-aligned block, the outputs are one
\* per block, and so every source value is counted in exactly one output.
Thm_C11_BlockSums ==
    AggregateDone =>
        LET src == call.args.series
            out == call.result[1]
            T == call.args.target
            tz == call.args.tz
        IN /\ \A k \in 1..Len(out) :
                 /\ out[k].date % T = 0
                 /\ InBlock(src, out[k].date, T, tz) # {}
                 /\ out[k].value = SumAt(src, InBlock(src, out[k].date, T, tz))
           /\ \A j, k \in 1..Len(out) : j < k => out[j].date < out[k].date
           /\ \A i \in 1..Len(src) :
                 \E k \in 1..Len(out) : out[k].date = BlockOf(src[i].date, T, tz)
           /\ SumValues(out) = SumValues(src)

\* C11 witness: 5-minute readings aggregated to half hours, with an output that
\* sums six source values which are not all equal, followed by another block
Wit_C11_SixSummed ==
    /\ AggregateDone
    /\ call.args.raw = 5 /\ call.args.target = 30
    /\ Len(call.result[1]) >= 2
    /\ \E k \in 1..Len(call.result[1]) :
          LET S == InBlock(call.args.series, call.result[1][k].date, 30, call.args.tz)
          IN /\ Cardinality(S) = 6
             /\ \E i, j \in S : call.args.series[i].value # call.args.series[j].value

-----------------------------------------------------------------------------
\* Properties of the irradiance distributor

DistributeDone == call.fn = "processSolarIrradianceData" /\ call.pc = "done"

RECURSIVE SumNum(_)
SumNum(s) == IF s = <<>> THEN 0 ELSE s[1].num + SumNum(Tail(s))

\* The daylight periods of a day: the entries splitIrradianceValue produced
Daylight(entries) == {k \in 1..Len(entries) : entries[k].den # 1}

\* The rounded window of the call
RoundedWindow ==
    roundSunriseSunset(call.args.window.sunrise, call.args.window.sunset,
                       call.args.periodInMinutes)

\* The values emitted for one day sum to v: the numerators over the common
\* denominator of the daylight periods, or 0 when there is no daylight period
DaySumIs(entries, v) ==
    IF Daylight(entries) = {} THEN v = 0
    ELSE \A k \in Daylight(entries) : SumNum(entries) = v * entries[k].den

\* C12 as stated: for every day processed, the values emitted for the day's
\* periods sum to the day's input irradiance value.
CE_C12_DaySumsToInput ==
    DistributeDone =>
        \A d \in 1..Len(call.args.data) :
            DaySumIs(call.result[1].perDay[d], call.args.data[d].value)

\* C12, amended: for every day whose rounded daylight window is not empty, the
\* values emitted for the day's periods sum to the day's input irradiance
\* value; for a day without daylight no daylight period is emitted and the
\* day's values sum to 0.
Thm_C12_DaySumsToInputInDaylight ==
    DistributeDone =>
        \A d \in 1..Len(call.args.data) :
            IF RoundedWindow.roundedSunset > RoundedWindow.roundedSunrise
            THEN /\ Daylight(call.result[1].perDay[d]) # {}
                 /\ DaySumIs(call.result[1].perDay[d], call.args.data[d].value)
            ELSE DaySumIs(call.result[1].perDay[d], 0)

\* C12 witness: two days of different input value, the second split into
\* daylight periods of different positive shares
Wit_C12_DaylightSplit ==
    /\ DistributeDone
    /\ Len(call.args.data) = 2
    /\ call.args.data[1].value # call.args.data[2].value
    /\ \E j, k \in Daylight(call.result[1].perDay[2]) :
          /\ call.result[1].perDay[2][j].num # call.result[1].perDay[2][k].num
          /\ call.result[1].perDay[2][j].num > 0

\* C13: for every day, location and time zone offset, processSolarIrradianceData
\* emits exactly 1440 / periodInMinutes periods for the day, each one
\* periodInMinutes after the one before it (none missing, none repeated).
CE_C13_PeriodsPerDay ==
    DistributeDone =>
        \A d \in 1..Len(call.args.data) :
            LET day == call.result[1].perDay[d]
            IN /\ Len(day) = 1440 \div call.args.periodInMinutes
               /\ \A k \in 1..(Len(day) - 1) :
                     day[k + 1].date = day[k].date + call.args.periodInMinutes

-----------------------------------------------------------------------------
\* Properties of the irradiance fetch

FetchIrradianceDone ==
    call.fn = "fetchIrradianceData" /\ call.pc \in {"nasa", "openMeteo"}

\* The values the service validated: the body, scaled by the NASA service
Validated ==
    IF call.pc = "nasa" THEN scaled(call.args.response.body)
    ELSE call.args.response.body

\* a = b as fractions
SameNumber(a, b) == a.den # 0 /\ b.den # 0 /\ a.num * b.den = b.num * a.den

\* C14: every successful return of the irradiance fetch holds exactly 365 daily
\* values, each strictly positive and not NaN: a valid value is kept, a value
\* <= 0 or NaN is replaced by the mean of the valid values, or by the fallback
\* 5 when none is valid; a response with any other count gives an error.
Thm_C14_PositiveYearOrError ==
    FetchIrradianceDone =>
        LET r == call.result[1]
            in == Validated
            valid == SelectSeq(in, LAMBDA x : isPositive(x.value))
        IN /\ (r.kind = "returned") <=>
                 (call.args.response.status = "ok" /\ CountOf(in) = DaysInYear)
           /\ r.kind = "returned" =>
                 /\ CountOf(r.value) = DaysInYear
                 /\ Len(r.value) = Len(in)
                 /\ \A k \in 1..Len(r.value) :
                       /\ r.value[k].count = in[k].count
                       /\ isPositive(r.value[k].value) /\ ~isNaN(r.value[k].value)
                       /\ isPositive(in[k].value) => r.value[k].value = in[k].value
                       /\ ~isPositive(in[k].value) =>
                             IF valid # <<>>
                             THEN SameNumber(r.value[k].value,
                                      [num |-> SumOf(valid), den |-> CountOf(valid)])
                             ELSE r.value[k].value = Num(5)

\* C14 witness: a year with a NaN day, a fill-value day and valid days, returned
\* with both replaced by the mean of the valid days
Wit_C14_Repaired ==
    /\ FetchIrradianceDone
    /\ call.result[1].kind = "returned"
    /\ \E j, k \in 1..Len(Validated) :
          /\ isNaN(Validated[j].value)
          /\ Validated[k].value.num < 0
    /\ \E k \in 1..Len(Validated) : isPositive(Validated[k].value)

\* C14 witness: a year without any valid day, returned as 365 times the fallback
Wit_C14_Fallback ==
    /\ FetchIrradianceDone
    /\ call.result[1].kind = "returned"
    /\ \A k \in 1..Len(Validated) : ~isPositive(Validated[k].value)
    /\ \E k \in 1..Len(Validated) : isNaN(Validated[k].value)

\* C14 witness: a response of 364 or 366 days, refused
Wit_C14_WrongCount ==
    /\ FetchIrradianceDone
    /\ call.args.response.status = "ok"
    /\ CountOf(Validated) \in {DaysInYear - 1, DaysInYear + 1}
    /\ call.result[1].kind = "thrown"

-----------------------------------------------------------------------------
\* Properties of padMissingDates

PadDone == call.fn = "padMissingDates" /\ call.pc = "done"

\* Consecutive entries of a series are exactly periodInMinutes apart
EvenlySpaced(series, periodInMinutes) ==
    \A k \in 1..(Len(series) - 1) :
        series[k + 1].date = series[k].date + periodInMinutes

\* Every reading of data is in series with its date and value
ReadingsKept(data, series) ==
    \A j \in 1..Len(data) :
        \E k \in 1..Len(series) :
            /\ series[k].date = data[j].date
            /\ SameNumber(series[k].value, data[j].value)

\* C15 as stated: the series returned by padMissingDates has consecutive
\* entries exactly periodInMinutes apart from its first to its last timestamp,
\* without gap or duplicate timestamp, and the first reading of every
\* timestamp that was present keeps its value.
CE_C15_GapFreeNoDuplicate ==
    PadDone =>
        /\ EvenlySpaced(call.result[1], call.args.periodInMinutes)
        /\ \A j \in 1..Len(call.args.data) :
              findEntry(call.args.data, call.args.data[j].date)[1] = call.args.data[j]
              => ReadingsKept(<<call.args.data[j]>>, call.result[1])

-----------------------------------------------------------------------------
\* Properties of single periods of the energy flow simulation

\* batteryLevel on entry to period k: what was charged less what was drawn in
\* the periods before it
RECURSIVE LevelBefore(_)
LevelBefore(k) ==
    IF k <= 1 THEN 0
    ELSE LevelBefore(k - 1) + chargedLog[k - 1]
         - energyCalculations.consumptionBattery[k - 1].value

\* generationSolar[k].value, or 0 when the series has no entry k (line 54)
SolarAt(k) ==
    IF k <= Len(energyCalculations.generationSolar)
    THEN energyCalculations.generationSolar[k].value ELSE 0

\* Processed periods entered with an empty battery and less solar than consumption
EmptyAndShort ==
    {k \in 1..Processed :
        /\ LevelBefore(k) = 0
        /\ SolarAt(k) < energyCalculations.totalConsumption[k].value}

\* C16: in a period where the battery is empty and solar is less than
\* consumption, usedSolar = solar, usedBattery = 0, usedGrid = consumption -
\* solar, and the battery level is still 0 after the period.
Thm_C16_EmptyBatteryShortfall ==
    /\ batteryLevel = LevelBefore(Processed + 1)
    /\ \A k \in EmptyAndShort :
          /\ energyCalculations.consumptionSolar[k].value = SolarAt(k)
          /\ energyCalculations.consumptionBattery[k].value = 0
          /\ energyCalculations.consumptionGrid[k].value
               = energyCalculations.totalConsumption[k].value - SolarAt(k)
          /\ LevelBefore(k + 1) = 0

\* C16 witness: a battery of capacity 2 is empty, the period has some solar but
\* less than its consumption
Wit_C16_EmptyBatteryShortfall ==
    /\ systemDetails.batteryCapacity = 2
    /\ \E k \in EmptyAndShort : SolarAt(k) > 0

\* Solar of period k left after self-consumption and battery charging
RemainingSolarAt(k) ==
    SolarAt(k) - energyCalculations.consumptionSolar[k].value - chargedLog[k]

\* Energy exported in the periods before k of the local calendar day of period k
DailyExportedBefore(k) ==
    SumDay(SubSeq(energyCalculations.exportedSolar, 1, k - 1),
           getDay(energyCalculations.exportedSolar[k].date))

\* C17: with a daily export limit configured, exportedSolar[i] = max(0,
\* min(remainingSolar, limit - dailyExported)) and unusedSolar[i] =
\* remainingSolar - exportedSolar[i]; with no limit configured all remaining
\* solar is exported and unused is 0.
CE_C17_ExportSplit ==
    \A k \in 1..Processed :
        /\ energyCalculations.exportedSolar[k].value =
             (IF systemDetails.exportLimit = None THEN RemainingSolarAt(k)
              ELSE Max(0, Min(RemainingSolarAt(k),
                              systemDetails.exportLimit[1] - DailyExportedBefore(k))))
        /\ unusedSolarAt(k) =
             RemainingSolarAt(k) - energyCalculations.exportedSolar[k].value

\* First processed period of its local calendar day
FirstOfDay(k) ==
    k = 1 \/ getDay(energyCalculations.exportedSolar[k].date)
               # getDay(energyCalculations.exportedSolar[k - 1].date)

\* C18: the running daily export total is reset at the first period of a new
\* local calendar date and at no other time: the first period of a day may
\* export up to the whole limit, and a later period of the day only what the
\* earlier periods of that day left of it.
CE_C18_DailyTotalResetPerDay ==
    (Simulated /\ systemDetails.exportLimit # None) =>
        \A k \in 1..Processed :
            IF FirstOfDay(k)
            THEN energyCalculations.exportedSolar[k].value
                   = Min(RemainingSolarAt(k), systemDetails.exportLimit[1])
            ELSE energyCalculations.exportedSolar[k].value
                   <= Max(0, systemDetails.exportLimit[1] - DailyExportedBefore(k))

\* C19: when the consumption series is empty, the run still produces for every
\* generation period an export/unused split of the full generation value.
CE_C19_GenerationOnlySplit ==
    (flowPc = "done" /\ Len(energyCalculations.totalConsumption) = 0) =>
        /\ Len(energyCalculations.exportedSolar)
             = Len(energyCalculations.generationSolar)
        /\ \A k \in 1..Len(energyCalculations.exportedSolar) :
              energyCalculations.exportedSolar[k].value + unusedSolarAt(k)
                = energyCalculations.generationSolar[k].value

-----------------------------------------------------------------------------
\* Properties of repeated simulation runs

\* The inputs of a finished run: the configuration and the two input series
RunInput(run) ==
    [systemDetails |-> run.systemDetails,
     generationSolar |-> run.returned.generationSolar,
     totalConsumption |-> run.returned.totalConsumption]

\* A run has reached the head of its loop without having processed a period
AtLoopEntry == flowPc = "loop" /\ flowI = 0

\* C20: every run enters its loop with battery level 0 and empty output
\* series, and two finished runs with the same series and configuration
\* returned the same result, whatever ran before or between them.
Thm_C20_FreshStatePerRun ==
    /\ AtLoopEntry =>
          /\ batteryLevel = 0
          /\ energyCalculations.exportedSolar = <<>>
          /\ energyCalculations.consumptionBattery = <<>>
    /\ \A i, j \in 1..Len(runLog) :
          RunInput(runLog[i]) = RunInput(runLog[j])
          => runLog[i].returned = runLog[j].returned

\* C20 witness: three runs, the first and third with the same inputs, the
\* second with another battery capacity or installation size and ending with
\* energy in the battery, and the third has used battery energy
Wit_C20_SameInputsAfterOtherRun ==
    /\ Len(runLog) = 3
    /\ flowPc = "done"
    /\ RunInput(runLog[1]) = RunInput(runLog[3])
    /\ RunInput(runLog[2]) # RunInput(runLog[1])
    /\ batteryLevel > 0
    /\ \E k \in 1..Len(runLog[3].returned.consumptionBattery) :
          runLog[3].returned.consumptionBattery[k].value > 0

-----------------------------------------------------------------------------
\* Properties of the cost of a period

\* The rate C22 describes: the peak rate from 14:00 to before 20:00 local time,
\* otherwise the off-peak rate, or the peak rate when no off-peak rate is given
RateAsStated(date, sd) ==
    LET peak == IF sd.peakCost = None THEN 0 ELSE sd.peakCost[1]
    IN IF getHours(date) >= 14 /\ getHours(date) < 20 THEN peak
       ELSE IF sd.offPeakCost # None THEN sd.offPeakCost[1]
       ELSE peak

\* C22 as stated: cost = usedGrid x rate - exported x feedInTariff, the feed-in
\* term only with a tariff configured and positive export, rate being the peak
\* rate in the peak window and otherwise the off-peak rate, or the peak rate
\* when no off-peak rate is given; the baseline cost is consumption x rate.
CE_C22_CostAtStatedRate ==
    (call.fn = "periodCost" /\ call.pc = "done") =>
        LET a == call.args
            rate == RateAsStated(a.date, a.systemDetails)
            fit == a.systemDetails.feedInTariff
        IN /\ call.result[1].cost =
                a.usedGrid * rate
                - (IF fit # None /\ a.exported > 0 THEN a.exported * fit[1] ELSE 0)
           /\ call.result[1].nonSolarCost = a.consumption * rate

-----------------------------------------------------------------------------
\* Properties of filterLastYearOfData

\* Month, day and time of day of a date: the minute of the year, with the days
\* from 1 March on counted as in a leap year
MonthDayAndTime(date) ==
    LET inYear == date - yearStart(getFullYear(date))
    IN IF ~isLeapYear(getFullYear(date)) /\ inYear >= 59 * 1440
       THEN inYear + 1440 ELSE inYear

\* C23 as stated: filterLastYearOfData keeps exactly the readings with
\* latest - 365 days < t <= latest, rewrites the year of each kept reading to
\* the current year, month, day and time of day preserved, and returns them
\* sorted by timestamp ascending.
CE_C23_LastYearRewritten ==
    (call.fn = "filterLastYearOfData" /\ call.pc = "done") =>
        LET data == call.args.data
            out == call.result[1]
            latest == maxDateOf(data, call.args.tz)
            Kept == {k \in 1..Len(data) :
                        /\ latest - 365 * 1440 < getMs(data[k].date, call.args.tz)
                        /\ getMs(data[k].date, call.args.tz) <= latest}
        IN /\ Len(out) = Cardinality(Kept)
           /\ \A k \in Kept :
                 \E j \in 1..Len(out) :
                    /\ out[j].value = data[k].value
                    /\ getFullYear(out[j].date) = call.args.currentYear
                    /\ MonthDayAndTime(out[j].date) = MonthDayAndTime(data[k].date)
           /\ \A j \in 1..(Len(out) - 1) : out[j].date <= out[j + 1].date

-----------------------------------------------------------------------------
\* Properties of the buckets of the period aggregator

\* The series of an EnergyCalculations that aggregateArray is applied to
ComponentSeries(calculations) == SeriesFields \cap DOMAIN calculations

\* out is made of the sums of contiguous runs of entries that follow each
\* other and cover entries: ends[j] is the index of the last entry of bucket j
BucketsOf(entries, out) ==
    IF Len(out) = 0 THEN Len(entries) = 0
    ELSE \E ends \in [1..Len(out) -> 1..Len(entries)] :
            /\ ends[Len(out)] = Len(entries)
            /\ \A j \in 1..Len(out) :
                  LET first == IF j = 1 THEN 1 ELSE ends[j - 1] + 1
                  IN /\ first <= ends[j]
                     /\ out[j].value = SumValues(SubSeq(entries, first, ends[j]))

\* C24: when aggregateEnergyCalculationsToPeriod returns, every entry of each
\* component series lies in exactly one output bucket of contiguous entries,
\* each output series has the total of its input series, and the cost array
\* is unchanged.
Thm_C24_BucketsKeepTotals ==
    aggResult.kind = "ok" =>
        /\ \A f \in ComponentSeries(energyCalculations) :
              /\ BucketsOf(energyCalculations[f], aggResult.value[f])
              /\ SumValues(aggResult.value[f]) = SumValues(energyCalculations[f])
        /\ aggResult.value.consumptionCost = energyCalculations.consumptionCost

\* C24 witness: three half-hourly periods aggregated to the hour give a bucket
\* of two entries and a last bucket of one, both with grid energy in them
Wit_C24_TwoBuckets ==
    /\ aggResult.kind = "ok"
    /\ aggResult.timePeriod = "hour"
    /\ Len(energyCalculations.consumptionGrid) = 3
    /\ Len(aggResult.value.consumptionGrid) = 2
    /\ energyCalculations.consumptionGrid[2].value > 0
    /\ energyCalculations.consumptionGrid[3].value > 0
    /\ Len(energyCalculations.consumptionCost) = 3

-----------------------------------------------------------------------------
\* Properties of roundSunriseSunset

\* Distance of minute x to the nearest multiple of p
ToBoundary(x, p) == Min(x % p, p - (x % p))

Abs(x) == IF x >= 0 THEN x ELSE -x

\* C25 as stated: the rounded sunrise and sunset are multiples of the period,
\* both moved up or both moved down, the one closer to its own period boundary
\* going to that boundary, and the rounded daylight length differs from the
\* true one by less than one period.
CE_C25_SameDirectionRounding ==
    (call.fn = "roundSunriseSunset" /\ call.pc = "done") =>
        LET a == call.args
            p == a.periodInMinutes
            r == call.result[1]
        IN /\ r.roundedSunrise % p = 0
           /\ r.roundedSunset % p = 0
           /\ \/ r.roundedSunrise >= a.sunrise /\ r.roundedSunset >= a.sunset
              \/ r.roundedSunrise <= a.sunrise /\ r.roundedSunset <= a.sunset
           /\ ToBoundary(a.sunrise, p) < ToBoundary(a.sunset, p)
                 => Abs(r.roundedSunrise - a.sunrise) = ToBoundary(a.sunrise, p)
           /\ ToBoundary(a.sunset, p) < ToBoundary(a.sunrise, p)
                 => Abs(r.roundedSunset - a.sunset) = ToBoundary(a.sunset, p)
           /\ Abs((r.roundedSunset - r.roundedSunrise) - (a.sunset - a.sunrise)) < p

\* The sum of the unusedSolar series, 0 for the series the run never assigns
SumUnusedSolar ==
    IF "unusedSolar" \in DOMAIN energyCalculations
    THEN SumValues(energyCalculations.unusedSolar) ELSE 0

\* C26: over a whole run the sum of generation equals the sum of
\* consumptionSolar, exportedSolar, unusedSolar and consumptionBattery plus the
\* final battery level.
CE_C26_EnergyConservedOverRun ==
    flowPc = "done" =>
        SumValues(energyCalculations.generationSolar) =
            SumValues(energyCalculations.consumptionSolar)
            + SumValues(energyCalculations.exportedSolar)
            + SumUnusedSolar
            + SumValues(energyCalculations.consumptionBattery)
            + batteryLevel

\* C27: in any period with batteryCapacity > 0 and exportedSolar[i] > 0, the
\* battery level at the end of the period equals batteryCapacity and the grid
\* import of the period is 0.
Thm_C27_ExportOnlyWhenFull ==
    /\ batteryLevel = LevelBefore(Processed + 1)
    /\ systemDetails.batteryCapacity > 0 =>
          \A k \in 1..Processed :
              energyCalculations.exportedSolar[k].value > 0 =>
                  /\ LevelBefore(k + 1) = systemDetails.batteryCapacity
                  /\ energyCalculations.consumptionGrid[k].value = 0

\* C27 witness: a period with consumption that started below capacity, filled
\* the battery and exported what was left
Wit_C27_FilledThenExported ==
    /\ systemDetails.batteryCapacity > 0
    /\ \E k \in 1..Processed :
          /\ energyCalculations.exportedSolar[k].value > 0
          /\ chargedLog[k] > 0
          /\ energyCalculations.totalConsumption[k].value > 0

\* C28: isLoadingSolar is true whenever an irradiance fetch is in flight; when
\* two fetches overlap, the completion of one does not clear it while the other
\* is pending.
CE_C28_LoadingWhileInFlight ==
    fetches # {} => isLoadingSolar

-----------------------------------------------------------------------------
\* Properties of the upload

\* Nothing of attempt i is left to run: no Papa.parse callback, no promise
Settled(i) == uploads[i].pc = "settled"

\* C29: every upload attempt that signals onUploadStart is followed by exactly
\* one of onDataLoaded or onError, and isLoadingUpload is cleared. As a property
\* of finite runs: no attempt calls more than one of them, an attempt with
\* nothing left to run has called one, and when no attempt has anything left to
\* run isLoadingUpload is false.
CE_C29_UploadEndsInOneCallback ==
    /\ \A i \in DOMAIN uploads :
        /\ uploads[i].loaded + uploads[i].errors <= 1
        /\ Settled(i) => uploads[i].loaded + uploads[i].errors = 1
    /\ (uploads # <<>> /\ \A i \in DOMAIN uploads : Settled(i)) => ~isLoadingUpload

-----------------------------------------------------------------------------
\* Properties of NEM12CsvParser.parse

\* C30: the periodInMinutes of the EnergyData a parser returns is the spacing
\* of the values it returns, also when the interval length of the 200 record
\* is not the target period.
CE_C30_PeriodIsSpacing ==
    (call.fn = "NEM12CsvParser.parse" /\ call.pc = "done") =>
        LET energyData == call.result[1]
        IN \A k \in 1..(Len(energyData.values) - 1) :
               getMs(energyData.values[k + 1].date, call.args.tz)
                 - getMs(energyData.values[k].date, call.args.tz)
               = energyData.periodInMinutes

====
